---- MODULE Spec2Model ----
(***************************************************************************)
(* Session bridge of voice-ai-twilio-fly: one telephony media-stream       *)
(* socket (conn.socket) bridged to one speech-engine socket (openaiWs),    *)
(* as written in src/src/index.js, handler /twilio-media (second copy of   *)
(* the file, lines 435-1159).                                              *)
(*                                                                         *)
(* A handler that awaits an external call is split at the await: the part  *)
(* up to the await is one action, the continuation another.  An await on   *)
(* a promise that is already settled resumes in a microtask, before any    *)
(* other socket event is handled, so it does not split the action.         *)
(***************************************************************************)
EXTENDS Integers, Sequences, FiniteSets, TLC

VARIABLES
  sess,    \* per connection: the closure state of one /twilio-media call
  proc,    \* the Node process: crashed by an unhandled rejection or not
  env,     \* process.env, read once at start-up
  clock,   \* number of time steps taken (bounds the run)
  fn       \* one call of an exported function on its own: arguments, result

vars == <<sess, proc, env, clock, fn>>

\* No function is called on its own: the state is the running server's.
NoCall == [name |-> "none"]

-----------------------------------------------------------------------------
(* Bounds of the model *)

MaxTwilioFrames == 3    \* telephony frames a session receives
MaxOpenaiEvents == 3    \* speech-engine events a session receives, calls apart
MaxCalls        == 2    \* function-call events a session receives
MaxTicks        == 3    \* time steps per behaviour
TickShort       == 100  \* a short time step, ms
TickLong        == 4000 \* a long time step, ms
MaxMediaFrames  == 2    \* media frames between a start and a stop frame

(* Program constants *)

LOOKUP_TIMEOUT_MS == 8000   \* setTimeout(() => resolve(null), 8000)

SessionIds == {"s1", "s2"}
StreamSids == {"MZ1", "MZ2"}
Phones     == {"+15550001"}
Payloads   == {"a1", "a2"}
CallIdOf   == [n \in 1..4 |-> <<"call_1", "call_2", "call_3", "call_4">>[n]]
CallIds    == {CallIdOf[n] : n \in 1..4}
NoSid      == "null"        \* let streamSid = null

TickSteps == {TickShort, TickLong}

Min(a, b) == IF a <= b THEN a ELSE b

RemoveAt(q, i) == [j \in 1..(Len(q) - 1) |-> IF j < i THEN q[j] ELSE q[j + 1]]

-----------------------------------------------------------------------------
(* Contact profiles.  A field that is undefined in JS is "" here: the code *)
(* reads these fields only through `x || default`.                         *)

NotFound ==
  [found |-> FALSE, firstName |-> "", company |-> "", email |-> "",
   load_number |-> "", reservation_number |-> ""]

Profiles ==
  { [found |-> TRUE, firstName |-> "Ann", company |-> "Acme", email |-> "ann@acme.test",
     load_number |-> "L77", reservation_number |-> "Unknown"] }

-----------------------------------------------------------------------------
(* Socket writes *)

\* openaiWs.send(frame): ws writes the frame only when readyState is OPEN.
\* In CLOSING or CLOSED the frame is discarded (no callback is given).
OpenaiSend(S, frame) ==
  IF S.openaiWs = "OPEN" THEN [S EXCEPT !.oaOut = Append(@, frame)] ELSE S

\* As sendToTwilio, with the frame put in front of those already written.
sendToTwilio_Front(S, obj) ==
  IF S.twilio = "OPEN" THEN [S EXCEPT !.twOut = <<obj>> \o @] ELSE S

\* sendToTwilio(obj): conn.socket.send inside try/catch; a frame is written
\* only while the telephony socket is OPEN.
sendToTwilio(S, obj) ==
  IF S.twilio = "OPEN" THEN [S EXCEPT !.twOut = Append(@, obj)] ELSE S

\* sendSessionConfig(info): session.update, then the greeting directive.
sendSessionConfig(S, info) ==
  OpenaiSend(
    OpenaiSend(S, [type |-> "session.update", found |-> info.found]),
    [type |-> "response.create", instructions |-> "greeting"])

\* The tail of the start handler, after `contact = await lookupContact(..)`.
AfterLookup(S, info) ==
  LET S1 == [S EXCEPT !.contact = info] IN
  IF S1.openaiWs = "OPEN"
    THEN sendSessionConfig(S1, S1.contact)
    ELSE [S1 EXCEPT !.openListeners = @ + 1]

\* lookupContact answers at once, without a request, for an unknown caller
\* or when the CRM credentials are not configured.
LookupIsImmediate(phoneNumber) ==
  phoneNumber = "Unknown" \/ ~env.GHL

-----------------------------------------------------------------------------
(* Initial state: the connection was accepted, new WebSocket(...) called *)

InitSession(twFrames, oaEvents, fnCalls) ==
  [twilio        |-> "OPEN",
   openaiWs      |-> "CONNECTING",
   streamSid     |-> NoSid,
   callerPhone   |-> "Unknown",
   contact       |-> NotFound,
   lookups       |-> <<>>,
   openListeners |-> 0,
   calls         |-> <<>>,
   oaOut         |-> <<>>,
   twOut         |-> <<>>,
   oaOpened      |-> FALSE,
   posted        |-> <<>>,
   logged        |-> <<>>,
   twBudget      |-> twFrames,   \* frames the telephony side will still send
   oaBudget      |-> oaEvents,   \* events the engine will still send
   callBudget    |-> fnCalls,    \* function calls the engine will still make
   speaking      |-> FALSE,
   sinceClear    |-> -1,
   twIn          |-> <<>>,       \* start, media and stop frames received, in order
   oaIn          |-> <<>>]       \* deltas, speech-started and call events received

Live == {"s1"}

\* One call, the audio path: no function calls; the optional webhooks do
\* not matter and are configured.
Init ==
  /\ sess = [s \in SessionIds |-> InitSession(MaxTwilioFrames, 0, 0)]
  /\ proc = [crashed |-> FALSE, unhandled |-> 0, fault |-> "none", kbIndex |-> "index"]
  /\ env \in [GHL : BOOLEAN, WEBHOOK_CALLBACK_REQUEST : {TRUE},
            WEBHOOK_TRANSFER_REQUEST : {TRUE}, WEBHOOK_UNKNOWN_QUESTION : {TRUE}]
  /\ clock = 0
  /\ fn = NoCall

\* One call, several tool dispatches in flight; every webhook configured,
\* no CRM lookup.
InitCalls ==
  /\ sess = [s \in SessionIds |-> InitSession(1, 0, MaxCalls)]
  /\ proc = [crashed |-> FALSE, unhandled |-> 0, fault |-> "none", kbIndex |-> "index"]
  /\ env = [GHL |-> FALSE, WEBHOOK_CALLBACK_REQUEST |-> TRUE,
            WEBHOOK_TRANSFER_REQUEST |-> TRUE, WEBHOOK_UNKNOWN_QUESTION |-> TRUE]
  /\ clock = 0
  /\ fn = NoCall

\* One call, the engine's events: audio deltas and speech-started events
\* against start and stop frames.
InitBarge ==
  /\ sess = [s \in SessionIds |-> InitSession(2, MaxOpenaiEvents, 0)]
  /\ proc = [crashed |-> FALSE, unhandled |-> 0, fault |-> "none", kbIndex |-> "index"]
  /\ env = [GHL |-> FALSE, WEBHOOK_CALLBACK_REQUEST |-> TRUE,
            WEBHOOK_TRANSFER_REQUEST |-> TRUE, WEBHOOK_UNKNOWN_QUESTION |-> TRUE]
  /\ clock = 0
  /\ fn = NoCall

\* One call, one tool dispatch at a time: every tool, every configuration.
InitTools ==
  /\ sess = [s \in SessionIds |-> InitSession(1, 0, 1)]
  /\ proc \in [crashed : {FALSE}, unhandled : {0}, fault : {"none"}, kbIndex : {"null", "index"}]
  /\ \E hooks \in BOOLEAN :
       env = [GHL |-> TRUE, WEBHOOK_CALLBACK_REQUEST |-> hooks,
              WEBHOOK_TRANSFER_REQUEST |-> hooks, WEBHOOK_UNKNOWN_QUESTION |-> hooks]
  /\ clock = 0
  /\ fn = NoCall

Running == ~proc.crashed

\* An async handler rejects with nobody awaiting it: Node (>= 15) raises
\* the unhandled rejection as an uncaught exception and the process exits.
UnhandledRejection(cause) ==
  proc' = [proc EXCEPT !.crashed = TRUE, !.unhandled = @ + 1, !.fault = cause]

Set(s, S) == sess' = [sess EXCEPT ![s] = S]

CanReceiveTwilio(s) ==
  /\ Running
  /\ sess[s].twilio = "OPEN"
  /\ sess[s].twBudget > 0

Received(S) == [S EXCEPT !.twBudget = @ - 1]

-----------------------------------------------------------------------------
(* conn.socket.on('message') *)

\* JSON.parse(raw) throws: return.
TwilioNotJson(s) ==
  /\ CanReceiveTwilio(s)
  /\ Set(s, Received(sess[s]))
  /\ UNCHANGED <<proc, env, clock, fn>>

\* event 'start' with a start object; caller = "" when customParameters
\* carries no caller.
TwilioStart(s, sid, caller) ==
  /\ CanReceiveTwilio(s)
  /\ LET S0    == Received(sess[s])
         S1    == [S0 EXCEPT !.streamSid = sid,
                             !.callerPhone = IF caller # "" THEN caller ELSE @,
                             !.twIn = Append(@, [event |-> "start", streamSid |-> sid])]
     IN  IF LookupIsImmediate(S1.callerPhone)
           THEN Set(s, AfterLookup(S1, NotFound))
           ELSE Set(s, [S1 EXCEPT !.lookups = Append(@, [elapsed |-> 0])])
  /\ UNCHANGED <<proc, env, clock, fn>>

\* event 'start' without a start object: msg.start.streamSid throws a
\* TypeError inside the async handler.
TwilioStartMalformed(s) ==
  /\ CanReceiveTwilio(s)
  /\ Set(s, Received(sess[s]))
  /\ UnhandledRejection("start_frame")
  /\ UNCHANGED <<env, clock, fn>>

\* As TwilioMedia, without the test of the engine socket's readyState.
TwilioMedia_Unguarded(s, payload) ==
  /\ CanReceiveTwilio(s)
  /\ LET S0 == [Received(sess[s]) EXCEPT
                  !.twIn = Append(@, [event |-> "media", payload |-> payload,
                                      ready |-> sess[s].openaiWs = "OPEN"])] IN
     Set(s, [S0 EXCEPT !.oaOut = Append(@, [type |-> "input_audio_buffer.append",
                                            audio |-> payload])])
  /\ UNCHANGED <<proc, env, clock, fn>>

\* As TwilioMedia, writing the frame twice when the engine socket is open.
TwilioMedia_Twice(s, payload) ==
  /\ CanReceiveTwilio(s)
  /\ LET S0 == [Received(sess[s]) EXCEPT
                  !.twIn = Append(@, [event |-> "media", payload |-> payload,
                                      ready |-> sess[s].openaiWs = "OPEN"])]
         f  == [type |-> "input_audio_buffer.append", audio |-> payload]
     IN  Set(s, OpenaiSend(OpenaiSend(S0, f), f))
  /\ UNCHANGED <<proc, env, clock, fn>>

\* event 'media' with a media object.
TwilioMedia(s, payload) ==
  /\ CanReceiveTwilio(s)
  /\ LET S0 == [Received(sess[s]) EXCEPT
                  !.twIn = Append(@, [event |-> "media", payload |-> payload,
                                      ready |-> sess[s].openaiWs = "OPEN"])] IN
     Set(s, IF S0.openaiWs = "OPEN"
              THEN OpenaiSend(S0, [type |-> "input_audio_buffer.append", audio |-> payload])
              ELSE S0)
  /\ UNCHANGED <<proc, env, clock, fn>>

\* event 'media' without a media object: msg.media.payload is evaluated
\* only when the engine socket is OPEN, and throws there.
TwilioMediaMalformed(s) ==
  /\ CanReceiveTwilio(s)
  /\ Set(s, Received(sess[s]))
  /\ IF sess[s].openaiWs = "OPEN" THEN UnhandledRejection("media_frame") ELSE UNCHANGED proc
  /\ UNCHANGED <<env, clock, fn>>

\* openaiWs.close(): OPEN -> CLOSING (close frame sent); CONNECTING -> the
\* handshake is aborted; CLOSING / CLOSED -> nothing.
OpenaiCloseCall(S) ==
  IF S.openaiWs \in {"OPEN", "CONNECTING"} THEN [S EXCEPT !.openaiWs = "CLOSING"] ELSE S

\* As TwilioStop, without the call of openaiWs.close().
TwilioStop_NoClose(s) ==
  /\ CanReceiveTwilio(s)
  /\ Set(s, [Received(sess[s]) EXCEPT !.twIn = Append(@, [event |-> "stop"])])
  /\ UNCHANGED <<proc, env, clock, fn>>

\* event 'stop'.
TwilioStop(s) ==
  /\ CanReceiveTwilio(s)
  /\ Set(s, OpenaiCloseCall([Received(sess[s]) EXCEPT !.twIn = Append(@, [event |-> "stop"])]))
  /\ UNCHANGED <<proc, env, clock, fn>>

\* any other event name ('connected', 'mark', ...): no branch matches.
TwilioOther(s) ==
  /\ CanReceiveTwilio(s)
  /\ Set(s, Received(sess[s]))
  /\ UNCHANGED <<proc, env, clock, fn>>

-----------------------------------------------------------------------------
(* Continuations of the start handler: `await lookupContact(callerPhone)` *)

LookupOutcomes == {"found", "empty", "not_ok", "reject"}

\* searchGHL settles before the timer.
LookupSettle(s, i, outcome, profile) ==
  /\ Running
  /\ i \in 1..Len(sess[s].lookups)
  /\ LET S0 == [sess[s] EXCEPT !.lookups = RemoveAt(@, i)] IN
     CASE outcome = "found"  -> Set(s, AfterLookup(S0, profile)) /\ UNCHANGED proc
       [] outcome = "empty"  -> Set(s, AfterLookup(S0, NotFound)) /\ UNCHANGED proc
       [] outcome = "not_ok" -> Set(s, AfterLookup(S0, NotFound)) /\ UNCHANGED proc
       [] outcome = "reject" -> Set(s, S0) /\ UnhandledRejection("lookup")
  /\ UNCHANGED <<env, clock, fn>>

\* As TimerRemaining, with the timer armed for twice as long.
TimerRemaining_Doubled(l) ==
  IF l.elapsed >= 2 * LOOKUP_TIMEOUT_MS THEN 0 ELSE 2 * LOOKUP_TIMEOUT_MS - l.elapsed

\* Time left on the timer a pending lookup is raced against.
TimerRemaining(l) ==
  IF l.elapsed >= LOOKUP_TIMEOUT_MS THEN 0 ELSE LOOKUP_TIMEOUT_MS - l.elapsed

\* The timer wins the race: result null, { found: false }.
LookupTimeout(s, i) ==
  /\ Running
  /\ i \in 1..Len(sess[s].lookups)
  /\ TimerRemaining(sess[s].lookups[i]) = 0
  /\ Set(s, AfterLookup([sess[s] EXCEPT !.lookups = RemoveAt(@, i)], NotFound))
  /\ UNCHANGED <<proc, env, clock, fn>>

-----------------------------------------------------------------------------
(* Socket life cycle *)

\* openaiWs 'open': the once('open') listeners run, each sending the
\* configuration with the contact as it is now.
RECURSIVE FireOpenListeners(_, _)
FireOpenListeners(S, n) ==
  IF n = 0 THEN S ELSE FireOpenListeners(sendSessionConfig(S, S.contact), n - 1)

OpenaiOpen(s) ==
  /\ Running
  /\ sess[s].openaiWs = "CONNECTING"
  /\ LET S0 == [sess[s] EXCEPT !.openaiWs = "OPEN", !.oaOpened = TRUE, !.openListeners = 0] IN
     Set(s, FireOpenListeners(S0, sess[s].openListeners))
  /\ UNCHANGED <<proc, env, clock, fn>>

\* openaiWs 'error' and 'close' (failed handshake, reset, close by the
\* engine, or the end of a close this side asked for): both handlers log.
OpenaiClosed(s) ==
  /\ Running
  /\ sess[s].openaiWs \in {"CONNECTING", "OPEN", "CLOSING"}
  /\ Set(s, [sess[s] EXCEPT !.openaiWs = "CLOSED"])
  /\ UNCHANGED <<proc, env, clock, fn>>

\* conn.socket.on('close'): the telephony peer closed or the transport
\* failed.  No handler of the bridge runs between the socket leaving OPEN
\* and this one.
TwilioClosed(s) ==
  /\ Running
  /\ sess[s].twilio = "OPEN"
  /\ Set(s, OpenaiCloseCall([sess[s] EXCEPT !.twilio = "CLOSED"]))
  /\ UNCHANGED <<proc, env, clock, fn>>

-----------------------------------------------------------------------------
(* JS objects of tool arguments and payloads: a function from the keys     *)
(* that are present to string values.                                      *)

EmptyObj == [k \in {} |-> ""]
JsNull   == [kind |-> "null"]             \* JSON.parse('null')
Obj(o)   == [kind |-> "object", obj |-> o]

Truthy(o, k) == k \in DOMAIN o /\ o[k] # ""
Or(o, k, d)  == IF Truthy(o, k) THEN o[k] ELSE d           \* o.k || d
Put(o, k, v) == [x \in DOMAIN o \cup {k} |-> IF x = k THEN v ELSE o[x]]
Spread(a, b) ==                                            \* { ...a, ...b }
  [x \in DOMAIN a \cup DOMAIN b |-> IF x \in DOMAIN b THEN b[x] ELSE a[x]]

KnownTools ==
  {"submit_new_intake", "report_existing_issue", "kb_search",
   "request_callback", "transfer_to_agent", "log_unknown_question"}

ToolNames == KnownTools \cup {"no_such_tool"}

\* The `arguments` strings the model feeds in: text that is not JSON, the
\* JSON literal null, and JSON objects.
NotJson == [kind |-> "notjson"]

ArgObjects(name) ==
  CASE name = "submit_new_intake"     -> {[job_city |-> "hola", phone |-> "+15559999"]}
    [] name = "report_existing_issue" -> {[call_notes |-> "hola"]}
    [] name = "kb_search"             -> {[query |-> "horario"]}
    [] name = "request_callback"      -> {[issue_summary |-> "hola", phone |-> "+15559999"]}
    [] name = "transfer_to_agent"     -> {[issue_summary |-> "hola"]}
    [] name = "log_unknown_question"  -> {[question |-> "hola"]}
    [] OTHER                          -> {[question |-> "hola"]}

ToolArgInputs(name) == {NotJson, JsNull} \cup {Obj(o) : o \in ArgObjects(name)}

\* Argument objects whose free text holds what the caller should not have
\* said: a PIN.
SensitiveArgObjects(name) ==
  CASE name = "submit_new_intake"     -> {[how_can_we_help_you |-> "my pin is 1234"]}
    [] name = "report_existing_issue" -> {[call_notes |-> "my pin is 1234"]}
    [] name = "request_callback"      -> {[issue_summary |-> "my pin is 1234"]}
    [] name = "transfer_to_agent"     -> {[issue_summary |-> "my pin is 1234"]}
    [] name = "log_unknown_question"  -> {[question |-> "my pin is 1234"]}
    [] OTHER                          -> {}

ArgInputs == UNION {ToolArgInputs(n) : n \in ToolNames}

\* try { args = JSON.parse(response.arguments || '{}') } catch { args = {} }
ParseArgs(a) == IF a = NotJson THEN Obj(EmptyObj) ELSE a

\* The fields each tool hands to translateFieldsToEnglish.
TranslateFields(name) ==
  CASE name = "submit_new_intake"     -> {"job_city", "job_state", "how_can_we_help_you"}
    [] name = "report_existing_issue" -> {"call_notes"}
    [] name = "request_callback"      -> {"reason", "issue_summary"}
    [] name = "transfer_to_agent"     -> {"issue_summary"}
    [] name = "log_unknown_question"  -> {"question", "topic"}
    [] OTHER                          -> {}

\* The payload each webhook tool builds from args, contact, callerPhone and
\* streamSid before translation.
BuildPayload(S, name, args) ==
  CASE name = "submit_new_intake" ->
         IF S.contact.found
           THEN Put(Put(Put(Put(args,
                  "first_name",   Or(args, "first_name", S.contact.firstName)),
                  "company_name", Or(args, "company_name", S.contact.company)),
                  "email",        Or(args, "email", S.contact.email)),
                  "phone",        Or(args, "phone", S.callerPhone))
           ELSE args
    [] name = "report_existing_issue" ->
         LET finalLoadNumber ==
               Or(args, "load_number",
                  IF S.contact.load_number # "" THEN S.contact.load_number
                  ELSE IF S.contact.reservation_number # "" THEN S.contact.reservation_number
                  ELSE "Unknown")
             payload == Put(args, "load_number", finalLoadNumber)
         IN  IF S.contact.found
               THEN Put(Put(payload,
                      "caller_name", Or(payload, "caller_name", S.contact.firstName)),
                      "phone",       Or(payload, "phone", S.callerPhone))
               ELSE payload
    [] name \in {"request_callback", "transfer_to_agent"} ->
         LET base ==
               [caller_name        |-> Or(args, "caller_name",
                                          IF S.contact.firstName # "" THEN S.contact.firstName ELSE "Unknown"),
                company_name       |-> Or(args, "company_name", S.contact.company),
                phone              |-> Or(args, "phone", S.callerPhone),
                email              |-> Or(args, "email", S.contact.email),
                issue_summary      |-> IF name = "request_callback"
                                         THEN Or(args, "issue_summary", Or(args, "reason", ""))
                                         ELSE Or(args, "issue_summary", ""),
                preferred_language |-> Or(args, "preferred_language", ""),
                load_number        |-> Or(args, "load_number", S.contact.load_number),
                reservation_number |-> Or(args, "reservation_number", S.contact.reservation_number),
                stream_sid         |-> S.streamSid,
                source             |-> "voice"]
         IN  IF name = "request_callback"
               THEN Put(base, "reason",
                        Or(args, "reason", Or(args, "issue_summary", "Callback requested")))
               ELSE base
    [] name = "log_unknown_question" ->
         [question           |-> Or(args, "question", ""),
          topic              |-> Or(args, "topic", ""),
          caller_name        |-> Or(args, "caller_name",
                                    IF S.contact.firstName # "" THEN S.contact.firstName ELSE "Unknown"),
          phone              |-> Or(args, "phone", S.callerPhone),
          preferred_language |-> Or(args, "preferred_language", "")]
    [] OTHER -> args

\* translateFieldsToEnglish: the subset of the listed fields that hold a
\* non-blank string.
Subset(payload, fields) ==
  [k \in {f \in fields : Truthy(payload, f)} |-> payload[k]]

\* What the translation service does to one value when it works as asked.
English(v) == IF v = "hola" THEN "hello" ELSE IF v = "horario" THEN "hours" ELSE v

\* How the translation request can end: fetch rejects, the response is not
\* OK, the content holds no JSON object, or the service answers as asked.
FailedReplies == {"rejected", "not_ok", "no_object"}

ReplyKinds == FailedReplies \cup {"faithful"}

\* extractJsonObject(content): the object between the first '{' and the
\* last '}', null when there is none or it does not parse.
\* A reply that does not keep to the request carries, besides the fields
\* asked for, a phone field or a field of its own.
extractJsonObject(subset, kind) ==
  LET asked == [k \in DOMAIN subset |-> English(subset[k])] IN
  IF kind = "no_object" THEN JsNull
  ELSE IF kind = "other_field" THEN Obj(Put(asked, "phone", "+15550000"))
  ELSE IF kind = "new_field" THEN Obj(Put(asked, "note", "nota"))
  ELSE Obj(asked)

\* What translatePayloadToEnglish returns: null from the catch and from the
\* !resp.ok branch, else what extractJsonObject makes of the content.
TranslationReply(subset, kind) ==
  IF kind \in {"rejected", "not_ok"} THEN JsNull
  ELSE extractJsonObject(subset, kind)

\* return { ...payload, ...translated }, or payload when translated is null
Translated(payload, reply) ==
  IF reply = JsNull THEN payload ELSE Spread(payload, reply.obj)

FollowupText(name) ==
  CASE name = "submit_new_intake"     -> "confirm_intake"
    [] name = "report_existing_issue" -> "notes_sent"
    [] name = "request_callback"      -> "callback_confirm"
    [] name = "transfer_to_agent"     -> "transferring"
    [] OTHER                          -> ""

\* The webhook URL a tool posts to is configured ('' otherwise).
WebhookConfigured(name) ==
  CASE name = "submit_new_intake"     -> TRUE       \* requireEnv(WEBHOOK_NEW_ORDER)
    [] name = "report_existing_issue" -> TRUE       \* requireEnv(WEBHOOK_EXISTING_UPDATE)
    [] name = "request_callback"      -> env.WEBHOOK_CALLBACK_REQUEST
    [] name = "transfer_to_agent"     -> env.WEBHOOK_TRANSFER_REQUEST
    [] name = "log_unknown_question"  -> env.WEBHOOK_UNKNOWN_QUESTION
    [] OTHER                          -> FALSE

-----------------------------------------------------------------------------
(* Tool dispatch: the function-call branch of openaiWs.on('message') *)

SetCall(S, h, c) == [S EXCEPT !.calls[h] = c]

\* As sendToolOutput, but echoing the call_id of the latest function-call
\* event instead of the one this handler was started with.
sendToolOutput_LatestCallId(S, h, callId, output) ==
  LET S1 == OpenaiSend(S, [type |-> "conversation.item.create",
                           call_id |-> S.calls[Len(S.calls)].call_id, output |-> output])
  IN  IF Len(S1.oaOut) > Len(S.oaOut)
        THEN [S1 EXCEPT !.calls[h].outIx = Len(S1.oaOut)]
        ELSE S1

\* sendToolOutput(callId, output); outIx remembers which frame of oaOut the
\* dispatch h wrote, 0 while it wrote none.
sendToolOutput(S, h, callId, output) ==
  LET S1 == OpenaiSend(S, [type |-> "conversation.item.create",
                           call_id |-> callId, output |-> output])
  IN  IF Len(S1.oaOut) > Len(S.oaOut)
        THEN [S1 EXCEPT !.calls[h].outIx = Len(S1.oaOut)]
        ELSE S1

\* requestFollowup(instructions): response.create, with the instructions
\* when there are any.
requestFollowup(S, instructions) ==
  OpenaiSend(S, [type |-> "response.create", instructions |-> instructions])

\* As Finish, with the follow-up requested before the result is sent.
Finish_FollowupFirst(S, h, output, instructions) ==
  LET S1 == requestFollowup(S, instructions)
      S2 == sendToolOutput(S1, h, S.calls[h].call_id, output)
  IN  [S2 EXCEPT !.calls[h].stage = "done"]

\* The end of a branch: the correlated result, the follow-up, handler done.
Finish(S, h, output, instructions) ==
  LET S1 == sendToolOutput(S, h, S.calls[h].call_id, output)
      S2 == requestFollowup(S1, instructions)
  IN  [S2 EXCEPT !.calls[h].stage = "done"]

\* An exception inside the handler: caught by the outer try/catch, logged.
Caught(S, h) == [S EXCEPT !.calls[h].stage = "failed"]

\* postWebhook(url, payload): nothing to await when the URL is empty,
\* otherwise the request is in flight.
PostOrSkip(S, h, name, label, body) ==
  IF WebhookConfigured(name)
    THEN [S EXCEPT !.calls[h].stage = label,
                   !.posted = Append(@, [tool |-> name, body |-> body])]
    ELSE S

\* After `await translateFieldsToEnglish(..)`: the primary action starts.
AfterTranslate(S, h, payload) ==
  LET name == S.calls[h].name
      S1   == [S EXCEPT !.calls[h].payload = payload]
  IN  CASE name = "log_unknown_question" ->
             [S1 EXCEPT !.calls[h].stage = "append"]
        [] name = "transfer_to_agent" ->
             IF WebhookConfigured(name)
               THEN PostOrSkip(S1, h, name, "webhook", Put(payload, "introduction", "intro"))
               ELSE Finish(S1, h, [success |-> FALSE, introduction |-> "intro"],
                           FollowupText(name))
        [] OTHER ->
             IF WebhookConfigured(name)
               THEN PostOrSkip(S1, h, name, "webhook", payload)
               ELSE Finish(S1, h, [success |-> FALSE], FollowupText(name))

\* translateFieldsToEnglish(payload, fields): returns the payload at once
\* when no listed field holds text, else awaits the translation request.
StartTranslate(S, h, payload, fields) ==
  IF DOMAIN Subset(payload, fields) = {}
    THEN AfterTranslate(S, h, payload)
    ELSE [S EXCEPT !.calls[h].payload = payload, !.calls[h].stage = "translate"]

\* searchKb up to its await: the three tagged failures, else the embedding
\* request is in flight.  OPENAI_API_KEY is required at start-up.
StartSearch(S, h, args) ==
  IF proc.kbIndex = "null"
    THEN Finish(S, h, [ok |-> FALSE, reason |-> "kb_not_ready"], "")
    ELSE IF ~Truthy(args, "query")
      THEN Finish(S, h, [ok |-> FALSE, reason |-> "empty_query"], "")
      ELSE [S EXCEPT !.calls[h].stage = "embed"]

NewCall(name, callId, args) ==
  [name |-> name, call_id |-> callId, args |-> args, stage |-> "start",
   payload |-> EmptyObj, outIx |-> 0, reply |-> "none"]

\* As Dispatch, with a webhook posted for a tool name that is not known.
Dispatch_UnknownPosted(S, name, callId, argsIn) ==
  LET args == ParseArgs(argsIn)
      h    == Len(S.calls) + 1
      S1   == [S EXCEPT !.calls = Append(@, NewCall(name, callId, args))]
  IN  IF name \notin KnownTools
        THEN Finish([S1 EXCEPT !.posted = Append(@, [tool |-> name, body |-> EmptyObj])],
                    h, [success |-> FALSE, error |-> "Unknown tool"], "")
      ELSE IF args = JsNull
        THEN Caught(S1, h)
      ELSE IF name = "kb_search"
        THEN StartSearch(S1, h, args.obj)
      ELSE StartTranslate(S1, h, BuildPayload(S1, name, args.obj), TranslateFields(name))

\* The handler from the function-call event to its first await.
Dispatch(S, name, callId, argsIn) ==
  LET args == ParseArgs(argsIn)
      h    == Len(S.calls) + 1
      S1   == [S EXCEPT !.calls = Append(@, NewCall(name, callId, args))]
  IN  IF name \notin KnownTools
        THEN Finish(S1, h, [success |-> FALSE, error |-> "Unknown tool"], "")
      ELSE IF args = JsNull
        THEN Caught(S1, h)           \* args.x on null: TypeError
      ELSE IF name = "kb_search"
        THEN StartSearch(S1, h, args.obj)
      ELSE StartTranslate(S1, h, BuildPayload(S1, name, args.obj), TranslateFields(name))

\* The engine sends while its socket is open, and what it sent before it
\* saw this side's close frame still arrives while the socket is CLOSING.
CanReceiveOpenai(s) ==
  /\ Running
  /\ sess[s].oaOpened
  /\ sess[s].openaiWs \in {"OPEN", "CLOSING"}
  /\ sess[s].oaBudget > 0

ReceivedOa(S) == [S EXCEPT !.oaBudget = @ - 1]

\* response.function_call_arguments.done
OpenaiFunctionCall(s, name, callId, argsIn) ==
  /\ Running
  /\ sess[s].oaOpened
  /\ sess[s].openaiWs \in {"OPEN", "CLOSING"}
  /\ sess[s].callBudget > 0
  /\ argsIn \in ToolArgInputs(name) \cup {Obj(o) : o \in SensitiveArgObjects(name)}
  /\ Set(s, Dispatch([sess[s] EXCEPT
                         !.callBudget = @ - 1,
                         !.oaIn = Append(@, [type |-> "function_call", call_id |-> callId])],
                      name, callId, argsIn))
  /\ UNCHANGED <<proc, env, clock, fn>>

Pending(s, h, stage) ==
  /\ Running
  /\ h \in 1..Len(sess[s].calls)
  /\ sess[s].calls[h].stage = stage

\* translatePayloadToEnglish settles; `reply` remembers whether it returned
\* null or an object.
TranslateDone(s, h, kind) ==
  /\ Pending(s, h, "translate")
  /\ LET c     == sess[s].calls[h]
         reply == TranslationReply(Subset(c.payload, TranslateFields(c.name)), kind)
         S1    == [sess[s] EXCEPT !.calls[h].reply = reply.kind]
     IN  Set(s, AfterTranslate(S1, h, Translated(c.payload, reply)))
  /\ UNCHANGED <<proc, env, clock, fn>>

\* postWebhook settles: ok (2xx), not_ok (other status) or error (fetch
\* rejects); all three are returned as { ok: ... }, never thrown.
WebhookDone(s, h, result) ==
  /\ Pending(s, h, "webhook")
  /\ LET c   == sess[s].calls[h]
         out == IF c.name = "transfer_to_agent"
                  THEN [success |-> result = "ok", introduction |-> "intro"]
                  ELSE [success |-> result = "ok"]
     IN  Set(s, Finish(sess[s], h, out, FollowupText(c.name)))
  /\ UNCHANGED <<proc, env, clock, fn>>

\* appendJsonLine settles inside logUnknownQuestion: on success the webhook
\* follows, on failure the rejection leaves logUnknownQuestion.
AppendDone(s, h, ok) ==
  /\ Pending(s, h, "append")
  /\ LET c == sess[s].calls[h] IN
     Set(s, IF ~ok THEN Caught(sess[s], h)
            ELSE LET S1 == [sess[s] EXCEPT !.logged = Append(@, c.payload)] IN
                 IF WebhookConfigured(c.name)
                   THEN PostOrSkip(S1, h, c.name, "logwebhook", c.payload)
                   ELSE Finish(S1, h, [success |-> TRUE], ""))
  /\ UNCHANGED <<proc, env, clock, fn>>

\* The unknown-question webhook settles; its result is not looked at.
LogWebhookDone(s, h, result) ==
  /\ Pending(s, h, "logwebhook")
  /\ Set(s, Finish(sess[s], h, [success |-> TRUE], ""))
  /\ UNCHANGED <<proc, env, clock, fn>>

\* embedTexts settles inside searchKb: on failure it throws, and searchKb
\* does not catch.
EmbedDone(s, h, ok) ==
  /\ Pending(s, h, "embed")
  /\ Set(s, IF ok THEN Finish(sess[s], h, [ok |-> TRUE, results |-> "results"], "")
            ELSE Caught(sess[s], h))
  /\ UNCHANGED <<proc, env, clock, fn>>

-----------------------------------------------------------------------------
(* The other branches of openaiWs.on('message') *)

\* JSON.parse(data) throws, or yields null: caught and logged.
OpenaiNotJson(s) ==
  /\ CanReceiveOpenai(s)
  /\ Set(s, ReceivedOa(sess[s]))
  /\ UNCHANGED <<proc, env, clock, fn>>

\* response.audio.delta with a non-empty delta.
OpenaiAudioDelta(s, delta) ==
  /\ CanReceiveOpenai(s)
  /\ Set(s, [sendToTwilio(ReceivedOa(sess[s]),
               [event |-> "media", streamSid |-> sess[s].streamSid, payload |-> delta])
             EXCEPT !.speaking = TRUE,
                    !.oaIn = Append(@, [type |-> "delta", delta |-> delta])])
  /\ UNCHANGED <<proc, env, clock, fn>>

\* As BargeIn, without the response.cancel.
BargeIn_ClearOnly(S) ==
  LET S1 == sendToTwilio(S, [event |-> "clear", streamSid |-> S.streamSid])
  IN  IF Len(S1.twOut) > Len(S.twOut) THEN [S1 EXCEPT !.sinceClear = 0] ELSE S1

\* The barge-in branch: clear to telephony, then response.cancel.
BargeIn(S) ==
  LET S1 == sendToTwilio(S, [event |-> "clear", streamSid |-> S.streamSid])
      S2 == OpenaiSend(S1, [type |-> "response.cancel"])
  IN  IF Len(S1.twOut) > Len(S.twOut) THEN [S2 EXCEPT !.sinceClear = 0] ELSE S2

\* input_audio_buffer.speech_started
OpenaiSpeechStarted(s) ==
  /\ CanReceiveOpenai(s)
  /\ Set(s, BargeIn([ReceivedOa(sess[s]) EXCEPT
                        !.oaIn = Append(@, [type |-> "speech_started"])]))
  /\ UNCHANGED <<proc, env, clock, fn>>

\* Any other event type (response.done, transcripts, ...): no branch.  The
\* engine has stopped emitting audio.
OpenaiOther(s) ==
  /\ CanReceiveOpenai(s)
  /\ Set(s, [ReceivedOa(sess[s]) EXCEPT !.speaking = FALSE])
  /\ UNCHANGED <<proc, env, clock, fn>>

-----------------------------------------------------------------------------
(* Time *)

\* Time to the earliest pending timer of a session (the lookup timers).
RECURSIVE MinRemaining(_, _)
MinRemaining(q, acc) ==
  IF q = <<>> THEN acc
  ELSE MinRemaining(Tail(q), Min(acc, TimerRemaining(Head(q))))

Advance(S, d) ==
  [S EXCEPT !.lookups = [j \in 1..Len(@) |-> [elapsed |-> @[j].elapsed + d]],
            !.sinceClear = IF @ < 0 THEN @ ELSE Min(@ + d, 250)]

TimeMatters(S) == S.lookups # <<>> \/ S.sinceClear \in 0..249

\* Time passes by at most `step`, and never past a timer that is due: a
\* due timer runs first.
Tick(step) ==
  /\ Running
  /\ clock < MaxTicks
  /\ \E s \in Live : TimeMatters(sess[s])
  /\ LET rem == {MinRemaining(sess[s].lookups, step) : s \in Live}
         d   == CHOOSE m \in rem : \A n \in rem : m <= n
     IN  /\ d > 0
         /\ sess' = [s \in SessionIds |-> IF s \in Live THEN Advance(sess[s], d) ELSE sess[s]]
  /\ clock' = clock + 1
  /\ UNCHANGED <<proc, env, fn>>

-----------------------------------------------------------------------------

\* The telephony socket's handlers and the start handler's continuations.
TwilioSide(s) ==
  \/ TwilioNotJson(s)
  \/ \E sid \in StreamSids, caller \in Phones \cup {""} : TwilioStart(s, sid, caller)
  \/ TwilioStartMalformed(s)
  \/ \E p \in Payloads : TwilioMedia(s, p)
  \/ TwilioMediaMalformed(s)
  \/ TwilioStop(s)
  \/ TwilioOther(s)
  \/ \E i \in 1..MaxTwilioFrames, o \in LookupOutcomes, p \in Profiles : LookupSettle(s, i, o, p)
  \/ \E i \in 1..MaxTwilioFrames : LookupTimeout(s, i)

Sockets(s) ==
  \/ OpenaiOpen(s)
  \/ OpenaiClosed(s)
  \/ TwilioClosed(s)

\* The speech-engine socket's handlers, function calls apart.
OpenaiSide(s) ==
  \/ OpenaiNotJson(s)
  \/ \E d \in Payloads : OpenaiAudioDelta(s, d)
  \/ OpenaiSpeechStarted(s)
  \/ OpenaiOther(s)

\* The function-call branch and its continuations.
ToolSide(s) ==
  \/ \E n \in ToolNames, a \in ArgInputs :
       OpenaiFunctionCall(s, n, CallIdOf[Len(sess[s].calls) + 1], a)
  \/ \E h \in 1..MaxCalls, k \in ReplyKinds : TranslateDone(s, h, k)
  \/ \E h \in 1..MaxCalls, r \in {"ok", "not_ok", "error"} : WebhookDone(s, h, r)
  \/ \E h \in 1..MaxCalls, ok \in BOOLEAN : AppendDone(s, h, ok)
  \/ \E h \in 1..MaxCalls, r \in {"ok", "not_ok", "error"} : LogWebhookDone(s, h, r)
  \/ \E h \in 1..MaxCalls, ok \in BOOLEAN : EmbedDone(s, h, ok)

Next ==
  \/ \E s \in Live : TwilioSide(s)
  \/ \E s \in Live : Sockets(s)
  \/ \E step \in TickSteps : Tick(step)

NextBarge ==
  \/ \E s \in Live, sid \in StreamSids : TwilioStart(s, sid, "")
  \/ \E s \in Live : TwilioStop(s)
  \/ \E s \in Live : Sockets(s)
  \/ \E s \in Live : OpenaiSide(s)
  \/ \E step \in TickSteps : Tick(step)

NextTools ==
  \/ \E s \in Live, caller \in Phones : TwilioStart(s, "MZ1", caller)
  \/ \E s \in Live, o \in LookupOutcomes, p \in Profiles : LookupSettle(s, 1, o, p)
  \/ \E s \in Live : Sockets(s)
  \/ \E s \in Live : ToolSide(s)

Spec == Init /\ [][Next]_vars

SpecBarge == InitBarge /\ [][NextBarge]_vars

NextCalls ==
  \/ \E s \in Live, sid \in StreamSids : TwilioStart(s, sid, "")
  \/ \E s \in Live : Sockets(s)
  \/ \E s \in Live : ToolSide(s)

SpecCalls == InitCalls /\ [][NextCalls]_vars

SpecTools == InitTools /\ [][NextTools]_vars

\* One call, both relay directions: a start frame (repeated or not), media
\* frames and a stop frame against the engine socket, the contact lookup
\* and the engine's audio.
InitRelay ==
  /\ sess = [s \in SessionIds |-> InitSession(MaxMediaFrames + 2, MaxMediaFrames, 0)]
  /\ proc = [crashed |-> FALSE, unhandled |-> 0, fault |-> "none", kbIndex |-> "index"]
  /\ env \in [GHL : BOOLEAN, WEBHOOK_CALLBACK_REQUEST : {TRUE},
            WEBHOOK_TRANSFER_REQUEST : {TRUE}, WEBHOOK_UNKNOWN_QUESTION : {TRUE}]
  /\ clock = 0
  /\ fn = NoCall

NextRelay ==
  \/ \E s \in Live, caller \in Phones : TwilioStart(s, "MZ1", caller)
  \/ \E s \in Live, p \in Payloads : TwilioMedia(s, p)
  \/ \E s \in Live : TwilioStop(s)
  \/ \E s \in Live, i \in 1..2, p \in Profiles : LookupSettle(s, i, "found", p)
  \/ \E s \in Live : Sockets(s)
  \/ \E s \in Live, d \in Payloads : OpenaiAudioDelta(s, d)

SpecRelay == InitRelay /\ [][NextRelay]_vars

\* One call, both relay directions with handlers suspended: the start
\* handler on the contact lookup and one knowledge-base search on its
\* embedding request, while media frames and audio deltas keep arriving.
InitOrder ==
  /\ sess = [s \in SessionIds |-> InitSession(MaxMediaFrames + 1, MaxMediaFrames, 1)]
  /\ proc = [crashed |-> FALSE, unhandled |-> 0, fault |-> "none", kbIndex |-> "index"]
  /\ env = [GHL |-> TRUE, WEBHOOK_CALLBACK_REQUEST |-> TRUE,
            WEBHOOK_TRANSFER_REQUEST |-> TRUE, WEBHOOK_UNKNOWN_QUESTION |-> TRUE]
  /\ clock = 0
  /\ fn = NoCall

NextOrder ==
  \/ \E s \in Live, caller \in Phones : TwilioStart(s, "MZ1", caller)
  \/ \E s \in Live, p \in Payloads : TwilioMedia(s, p)
  \/ \E s \in Live, i \in 1..2, p \in Profiles : LookupSettle(s, i, "found", p)
  \/ \E s \in Live : OpenaiOpen(s)
  \/ \E s \in Live : TwilioClosed(s)
  \/ \E s \in Live, d \in Payloads : OpenaiAudioDelta(s, d)
  \/ \E s \in Live, o \in ArgObjects("kb_search") :
       OpenaiFunctionCall(s, "kb_search", CallIdOf[Len(sess[s].calls) + 1], Obj(o))
  \/ \E s \in Live, ok \in BOOLEAN : EmbedDone(s, 1, ok)

SpecOrder == InitOrder /\ [][NextOrder]_vars

\* One call, one tool dispatch and speech-started events around it.
InitInterrupt ==
  /\ sess = [s \in SessionIds |-> InitSession(1, 1, 1)]
  /\ proc = [crashed |-> FALSE, unhandled |-> 0, fault |-> "none", kbIndex |-> "index"]
  /\ env = [GHL |-> FALSE, WEBHOOK_CALLBACK_REQUEST |-> TRUE,
            WEBHOOK_TRANSFER_REQUEST |-> TRUE, WEBHOOK_UNKNOWN_QUESTION |-> TRUE]
  /\ clock = 0
  /\ fn = NoCall

NextInterrupt ==
  \/ \E s \in Live : TwilioStart(s, "MZ1", "")
  \/ \E s \in Live : Sockets(s)
  \/ \E s \in Live : OpenaiSpeechStarted(s)
  \/ \E s \in Live : ToolSide(s)

SpecInterrupt == InitInterrupt /\ [][NextInterrupt]_vars

-----------------------------------------------------------------------------
(* Properties *)

Last(q) == q[Len(q)]

FramesOfType(q, type) == {i \in 1..Len(q) : q[i].type = type}

ToolOutputs(S, callId) ==
  {i \in FramesOfType(S.oaOut, "conversation.item.create") : S.oaOut[i].call_id = callId}

Finished(c) == c.stage \in {"done", "failed"}

\* The step writes exactly one more frame to the engine, of the given type.
WritesToEngine(s, type) ==
  /\ Len(sess'[s].oaOut) = Len(sess[s].oaOut) + 1
  /\ Last(sess'[s].oaOut).type = type

ClearFrame(S)  == [event |-> "clear", streamSid |-> S.streamSid]
CancelFrame    == [type |-> "response.cancel"]

\* C1: when either socket of a session is closed, the other one is closed
\* or closing too: no state has one side closed and the other still open
\* or connecting.
C1_ClosePropagates ==
  \A s \in Live :
    /\ sess[s].openaiWs = "CLOSED" => sess[s].twilio = "CLOSED"
    /\ sess[s].twilio = "CLOSED" => sess[s].openaiWs \in {"CLOSING", "CLOSED"}

\* C2: a function-call handler that has run to its end with the engine
\* socket open has written exactly one function_call_output frame for its
\* call_id, whatever the tool and whatever its external calls answered
\* (stated for arguments that are a JSON object or no JSON at all).
C2_ExactlyOneOutput ==
  \A s \in Live : \A h \in 1..Len(sess[s].calls) :
    (/\ Finished(sess[s].calls[h])
     /\ sess[s].calls[h].args.kind = "object"
     /\ sess[s].openaiWs = "OPEN")
      => Cardinality(ToolOutputs(sess[s], sess[s].calls[h].call_id)) = 1

\* C3: every function_call_output frame written to the engine was written
\* by one dispatch and carries the call_id of the function-call event that
\* started that dispatch, in whatever order concurrent dispatches finish.
C3_CallIdEchoed ==
  \A s \in Live :
    /\ \A h \in 1..Len(sess[s].calls) :
         sess[s].calls[h].outIx # 0 =>
           /\ sess[s].calls[h].outIx \in FramesOfType(sess[s].oaOut, "conversation.item.create")
           /\ sess[s].oaOut[sess[s].calls[h].outIx].call_id = sess[s].calls[h].call_id
    /\ \A i \in FramesOfType(sess[s].oaOut, "conversation.item.create") :
         \E h \in 1..Len(sess[s].calls) : sess[s].calls[h].outIx = i

\* C3 witness: two dispatches were in flight together and the later one
\* wrote its result first.
C3_Witness ==
  \E s \in Live :
    /\ Len(sess[s].calls) = 2
    /\ sess[s].calls[2].outIx # 0
    /\ sess[s].calls[1].outIx > sess[s].calls[2].outIx

\* C4: once the start frame was received, no input_audio_buffer.append is
\* written to the engine unless a session.update was written before it.
C4_NoAudioBeforeConfig ==
  [][\A s \in Live :
       (sess[s].streamSid # NoSid /\ WritesToEngine(s, "input_audio_buffer.append"))
         => FramesOfType(sess[s].oaOut, "session.update") # {}]_vars

\* C5: a session writes at most one session.update to the engine, however
\* many start frames it receives.
C5_OneSessionUpdate ==
  \A s \in Live : Cardinality(FramesOfType(sess[s].oaOut, "session.update")) <= 1

\* C6: a failing contact lookup is never an unhandled fault of the start
\* handler.
C6_LookupFailureIsCaught == proc.fault # "lookup"

\* C7: a pending contact lookup has never been pending for more than 8000
\* ms, and once it has been pending that long in a running process the
\* timer's branch (contact not found, then configuration) can run.
C7_LookupBounded ==
  \A s \in Live : \A i \in 1..Len(sess[s].lookups) :
    /\ sess[s].lookups[i].elapsed <= 8000
    /\ (Running /\ sess[s].lookups[i].elapsed = 8000) => ENABLED LookupTimeout(s, i)

\* C7 witness: a lookup that has been pending for the whole 8000 ms.
C7_Witness ==
  \E s \in Live : \E i \in 1..Len(sess[s].lookups) : sess[s].lookups[i].elapsed = 8000

\* C8: a malformed telephony frame (a start frame without a start object,
\* a media frame without a media object) raises no unhandled fault.
C8_MalformedFrameIsDropped == proc.fault \notin {"start_frame", "media_frame"}

\* C9 as stated: every speech-started event (of a session that has had
\* its start frame) writes one clear frame tagged with the stream
\* identifier to telephony and one response.cancel to the engine, in the
\* same step.
C9_BargeInAlways ==
  [][\A s \in Live :
       (OpenaiSpeechStarted(s) /\ sess[s].streamSid # NoSid) =>
         /\ sess'[s].twOut = Append(sess[s].twOut, ClearFrame(sess[s]))
         /\ sess'[s].oaOut = Append(sess[s].oaOut, CancelFrame)]_vars

\* C9 amended: a speech-started event received while both sockets are open
\* writes one clear frame tagged with the stream identifier to telephony
\* and one response.cancel to the engine, in the same step, and nothing
\* else.
C9_BargeInWhileOpen ==
  [][\A s \in Live :
       (OpenaiSpeechStarted(s) /\ sess[s].twilio = "OPEN" /\ sess[s].openaiWs = "OPEN") =>
         /\ sess'[s].twOut = Append(sess[s].twOut, ClearFrame(sess[s]))
         /\ sess'[s].oaOut = Append(sess[s].oaOut, CancelFrame)]_vars

\* C9 witness: a barge-in was handled after the start frame: the latest
\* frames written are the clear, tagged, and the response.cancel.
C9_Witness ==
  \E s \in Live :
    /\ sess[s].streamSid # NoSid
    /\ sess[s].twOut # <<>> /\ Last(sess[s].twOut) = ClearFrame(sess[s])
    /\ sess[s].oaOut # <<>> /\ Last(sess[s].oaOut) = CancelFrame

\* C10: a speech-started event received while the engine is emitting audio
\* and less than 250 ms after the previous clear frame writes no frame to
\* telephony (stated for a session that has had its start frame).
C10_CooldownSuppressesClear ==
  [][\A s \in Live :
       (/\ OpenaiSpeechStarted(s)
        /\ sess[s].streamSid # NoSid
        /\ sess[s].speaking
        /\ sess[s].sinceClear \in 0..249)
         => sess'[s].twOut = sess[s].twOut]_vars

\* C11: a session's stream identifier is unset until a start frame is
\* handled and, once set, is never given another value, however many
\* start frames follow.
C11_StreamSidAssignedOnce ==
  [][\A s \in Live :
       /\ (sess[s].streamSid = NoSid /\ sess'[s].streamSid # NoSid) =>
            \E sid \in StreamSids, caller \in Phones \cup {""} : TwilioStart(s, sid, caller)
       /\ sess[s].streamSid # NoSid => sess'[s].streamSid = sess[s].streamSid]_vars

AppendFrame(p) == [type |-> "input_audio_buffer.append", audio |-> p]

\* The payloads of the frames of q that satisfy Test, in order.
PayloadsOf(q, Test(_), Get(_)) ==
  LET sel == SelectSeq(q, Test) IN [i \in 1..Len(sel) |-> Get(sel[i])]

IsMediaIn(f)  == f.event = "media"
IsAppend(f)   == f.type = "input_audio_buffer.append"
IsDelta(f)    == f.type = "delta"
GetPayload(f) == f.payload
GetAudio(f)   == f.audio
GetDelta(f)   == f.delta

MediaReceived(S) == PayloadsOf(S.twIn, IsMediaIn, GetPayload)
AudioAppended(S) == PayloadsOf(S.oaOut, IsAppend, GetAudio)

\* C12: a media frame handled while the engine socket is OPEN writes one
\* input_audio_buffer.append carrying the frame's payload; handled in any
\* other state of the socket it writes nothing; and no step at all writes
\* an input_audio_buffer.append unless the engine socket is OPEN.
C12_MediaOnlyWhenOpen ==
  [][\A s \in Live :
       /\ \A p \in Payloads : TwilioMedia(s, p) =>
            IF sess[s].openaiWs = "OPEN"
              THEN sess'[s].oaOut = Append(sess[s].oaOut, AppendFrame(p))
              ELSE sess'[s].oaOut = sess[s].oaOut
       /\ Len(AudioAppended(sess'[s])) > Len(AudioAppended(sess[s])) =>
            sess[s].openaiWs = "OPEN"]_vars

\* C12 witness: one media frame arrived before the engine socket was open
\* and was not forwarded, a later one was forwarded unchanged.
C12_Witness ==
  \E s \in Live :
    /\ Len(MediaReceived(sess[s])) = 2
    /\ MediaReceived(sess[s])[1] # MediaReceived(sess[s])[2]
    /\ AudioAppended(sess[s]) = <<MediaReceived(sess[s])[2]>>

\* The telephony frames received so far are a start frame, then one or more
\* media frames, then a stop frame.
StartMediaStop(S) ==
  /\ Len(S.twIn) >= 3
  /\ S.twIn[1].event = "start"
  /\ S.twIn[Len(S.twIn)].event = "stop"
  /\ \A i \in 2..(Len(S.twIn) - 1) : S.twIn[i].event = "media"

IsReadyMedia(f) == f.event = "media" /\ f.ready

\* C13 as stated: after start, n media frames and stop, the number of
\* input_audio_buffer.append frames written to the engine is n.
C13_AppendsEqualMedia ==
  \A s \in Live :
    StartMediaStop(sess[s]) =>
      Len(AudioAppended(sess[s])) = Len(MediaReceived(sess[s]))

\* C13 amended: after start, n media frames and stop, the number of
\* input_audio_buffer.append frames written to the engine is the number of
\* those media frames that arrived while the engine socket was OPEN.
C13_AppendsEqualReadyMedia ==
  \A s \in Live :
    StartMediaStop(sess[s]) =>
      Len(AudioAppended(sess[s])) = Len(SelectSeq(sess[s].twIn, IsReadyMedia))

\* C13 witness: start, two media frames, stop, with the engine socket
\* opening between the two media frames: one append.
C13_Witness ==
  \E s \in Live :
    /\ StartMediaStop(sess[s])
    /\ Len(sess[s].twIn) = 4
    /\ ~sess[s].twIn[2].ready /\ sess[s].twIn[3].ready
    /\ Len(AudioAppended(sess[s])) = 1

\* A stop frame has been received.
Stopped(S) == \E i \in 1..Len(S.twIn) : S.twIn[i].event = "stop"

\* C14: from the step that handles a stop frame on, the engine socket is
\* closing or closed, and no later step writes a frame to it: neither a
\* media frame, nor the configuration of a start handler whose lookup
\* answers after the stop.
C14_StopClosesEngine ==
  [][\A s \in Live :
       Stopped(sess'[s]) =>
         /\ sess'[s].openaiWs \in {"CLOSING", "CLOSED"}
         /\ Stopped(sess[s]) => sess'[s].oaOut = sess[s].oaOut]_vars

\* C14 witness: the stop frame closed an open engine socket while the
\* start handler was waiting for the lookup; the lookup then answered and
\* the configuration was not written.
C14_Witness ==
  \E s \in Live :
    /\ Stopped(sess[s])
    /\ sess[s].twilio = "OPEN"
    /\ sess[s].openaiWs = "CLOSING"
    /\ sess[s].oaOpened
    /\ sess[s].contact.found
    /\ sess[s].openListeners > 0
    /\ FramesOfType(sess[s].oaOut, "session.update") = {}

MediaFrame(S, d) == [event |-> "media", streamSid |-> S.streamSid, payload |-> d]

\* C15: an audio delta handled while the telephony socket is open writes
\* one media frame whose payload is the delta, and every media or clear
\* frame a step writes to telephony carries a stream identifier that a
\* start frame has set, never the unset one.
C15_TelephonyFramesTagged ==
  [][\A s \in Live :
       /\ \A d \in Payloads :
            (OpenaiAudioDelta(s, d) /\ sess[s].twilio = "OPEN") =>
              sess'[s].twOut = Append(sess[s].twOut, MediaFrame(sess[s], d))
       /\ \A i \in (Len(sess[s].twOut) + 1)..Len(sess'[s].twOut) :
            /\ sess'[s].twOut[i].event \in {"media", "clear"}
            /\ sess'[s].twOut[i].streamSid # NoSid]_vars

\* a is b with zero or more elements left out, the order kept.
RECURSIVE IsSubseq(_, _)
IsSubseq(a, b) ==
  IF a = <<>> THEN TRUE
  ELSE IF b = <<>> THEN FALSE
  ELSE IF Head(a) = Head(b) THEN IsSubseq(Tail(a), Tail(b))
  ELSE IsSubseq(a, Tail(b))

IsMediaOut(f) == f.event = "media"

DeltasReceived(S) == PayloadsOf(S.oaIn, IsDelta, GetDelta)
MediaSent(S)      == PayloadsOf(S.twOut, IsMediaOut, GetPayload)

\* C16: the audio payloads appended to the engine are, in order, a
\* subsequence of the media payloads received from telephony, and the
\* media payloads written to telephony are, in order, a subsequence of the
\* audio deltas received from the engine, whatever handlers are suspended.
C16_RelayKeepsOrder ==
  \A s \in Live :
    /\ IsSubseq(AudioAppended(sess[s]), MediaReceived(sess[s]))
    /\ IsSubseq(MediaSent(sess[s]), DeltasReceived(sess[s]))

\* C16 witness: two different payloads relayed in each direction after
\* the start frame and the function-call event, while the start handler
\* waits for the lookup and the search waits for its embedding.
C16_Witness ==
  \E s \in Live :
    /\ sess[s].lookups # <<>>
    /\ \E h \in 1..Len(sess[s].calls) : sess[s].calls[h].stage = "embed"
    /\ sess[s].oaIn # <<>> /\ sess[s].oaIn[1].type = "function_call"
    /\ sess[s].twIn # <<>> /\ sess[s].twIn[1].event = "start"
    /\ Len(AudioAppended(sess[s])) = 2
    /\ AudioAppended(sess[s])[1] # AudioAppended(sess[s])[2]
    /\ Len(MediaSent(sess[s])) = 2
    /\ MediaSent(sess[s])[1] # MediaSent(sess[s])[2]

\* The function-call handlers of a session that are suspended at an await.
HandlersInProgress(S) == {h \in 1..Len(S.calls) : ~Finished(S.calls[h])}

\* C17: of each socket's message handlers at most one is in progress: at
\* most one function-call handler is suspended on an external call, and at
\* most one start handler is suspended on the contact lookup.
C17_HandlersSerialized ==
  \A s \in Live :
    /\ Cardinality(HandlersInProgress(sess[s])) <= 1
    /\ Len(sess[s].lookups) <= 1

\* A speech-started event was received after the function-call event that
\* started dispatch h.
BargedSince(S, h) ==
  \E i, j \in 1..Len(S.oaIn) :
    /\ i < j
    /\ S.oaIn[i].type = "function_call" /\ S.oaIn[i].call_id = S.calls[h].call_id
    /\ S.oaIn[j].type = "speech_started"

\* A barge-in during an outstanding dispatch touches nothing of the
\* dispatch and writes at most the clear frame and the response.cancel.
BargeInLeavesDispatch(s) ==
  (OpenaiSpeechStarted(s) /\ HandlersInProgress(sess[s]) # {}) =>
    /\ sess'[s].calls = sess[s].calls
    /\ sess'[s].posted = sess[s].posted
    /\ sess'[s].logged = sess[s].logged
    /\ sess'[s].contact = sess[s].contact
    /\ sess'[s].openaiWs = sess[s].openaiWs
    /\ sess'[s].twilio = sess[s].twilio
    /\ sess'[s].twOut \in {sess[s].twOut, Append(sess[s].twOut, ClearFrame(sess[s]))}
    /\ sess'[s].oaOut \in {sess[s].oaOut, Append(sess[s].oaOut, CancelFrame)}

\* A dispatch that was barged in on and whose handler ends in this step,
\* the engine socket open, writes its result frame with its call_id and
\* then its follow-up.
BargedDispatchAnswers(s) ==
  \A h \in HandlersInProgress(sess[s]) :
    (/\ BargedSince(sess[s], h)
     /\ Finished(sess'[s].calls[h])
     /\ sess[s].openaiWs = "OPEN")
      => /\ Len(sess'[s].oaOut) = Len(sess[s].oaOut) + 2
         /\ sess'[s].oaOut[Len(sess[s].oaOut) + 1].type = "conversation.item.create"
         /\ sess'[s].oaOut[Len(sess[s].oaOut) + 1].call_id = sess[s].calls[h].call_id
         /\ sess'[s].oaOut[Len(sess[s].oaOut) + 2].type = "response.create"

\* C18: a barge-in that arrives while a dispatch is outstanding leaves the
\* dispatch untouched and writes only the clear frame and the
\* response.cancel, and the dispatch still ends by writing its correlated
\* result frame and its follow-up.
C18_BargeInLeavesDispatch ==
  [][\A s \in Live : BargeInLeavesDispatch(s) /\ BargedDispatchAnswers(s)]_vars

\* The session is closed: the telephony socket has closed or a stop frame
\* was received.
SessionClosed(S) == S.twilio = "CLOSED" \/ Stopped(S)

\* C19: once the session is closed no step writes a frame to either
\* socket of the session.
C19_NoWritesAfterClose ==
  [][\A s \in Live :
       SessionClosed(sess[s]) =>
         /\ sess'[s].oaOut = sess[s].oaOut
         /\ sess'[s].twOut = sess[s].twOut]_vars

UnknownToolOutput(callId) ==
  [type |-> "conversation.item.create", call_id |-> callId,
   output |-> [success |-> FALSE, error |-> "Unknown tool"]]

BareFollowup == [type |-> "response.create", instructions |-> ""]

\* What the claim says of a function-call event with an unknown tool name:
\* the result frame, then a response directive without instructions, no
\* webhook, no log entry, no telephony frame, and the handler at its end
\* with no translation, search or other external call pending.
UnknownToolEffect(s) ==
  /\ sess'[s].oaOut = sess[s].oaOut \o
        <<UnknownToolOutput(CallIdOf[Len(sess[s].calls) + 1]), BareFollowup>>
  /\ sess'[s].posted = sess[s].posted
  /\ sess'[s].logged = sess[s].logged
  /\ sess'[s].twOut = sess[s].twOut
  /\ Len(sess'[s].calls) = Len(sess[s].calls) + 1
  /\ Last(sess'[s].calls).stage = "done"

\* C20 as stated: every function-call event with an unknown tool name has
\* that effect.
C20_UnknownToolAlways ==
  [][\A s \in Live : \A a \in ToolArgInputs("no_such_tool") :
       OpenaiFunctionCall(s, "no_such_tool", CallIdOf[Len(sess[s].calls) + 1], a)
         => UnknownToolEffect(s)]_vars

\* C20 amended: every function-call event with an unknown tool name that
\* is received while the engine socket is open has that effect.
C20_UnknownToolWhileOpen ==
  [][\A s \in Live : \A a \in ToolArgInputs("no_such_tool") :
       (/\ OpenaiFunctionCall(s, "no_such_tool", CallIdOf[Len(sess[s].calls) + 1], a)
        /\ sess[s].openaiWs = "OPEN")
         => UnknownToolEffect(s)]_vars

\* C20 witness: an unknown tool called with a JSON object was answered.
C20_Witness ==
  \E s \in Live :
    /\ Len(sess[s].calls) = 1
    /\ sess[s].calls[1].name = "no_such_tool"
    /\ sess[s].calls[1].args = Obj([question |-> "hola"])
    /\ sess[s].oaOut # <<>>
    /\ Last(sess[s].oaOut) = BareFollowup
    /\ UnknownToolOutput("call_1") \in {sess[s].oaOut[i] : i \in 1..Len(sess[s].oaOut)}
    /\ sess[s].posted = <<>>

\* The body a webhook tool posts for a payload: transfer_to_agent adds the
\* introduction it composed.
PostedBody(name, payload) ==
  IF name = "transfer_to_agent" THEN Put(payload, "introduction", "intro") ELSE payload

\* A translation that ends without an object leaves the payload as it was
\* built and starts the tool's primary action with it: the log append, or
\* the webhook post when the tool's webhook is configured.
FailedTranslationProceeds(s) ==
  \A h \in 1..Len(sess[s].calls) : \A k \in FailedReplies :
    TranslateDone(s, h, k) =>
      LET c == sess[s].calls[h] IN
      /\ sess'[s].calls[h].payload = c.payload
      /\ sess'[s].calls[h].reply = "null"
      /\ IF c.name = "log_unknown_question"
           THEN sess'[s].calls[h].stage = "append"
         ELSE IF WebhookConfigured(c.name)
           THEN /\ sess'[s].calls[h].stage = "webhook"
                /\ sess'[s].posted =
                     Append(sess[s].posted,
                            [tool |-> c.name, body |-> PostedBody(c.name, c.payload)])
         ELSE sess'[s].posted = sess[s].posted

\* A dispatch whose translation ended without an object and whose handler
\* ends in this step, the engine socket open, has carried out its primary
\* action and writes its result frame with its call_id.
UntranslatedDispatchAnswers(s) ==
  \A h \in HandlersInProgress(sess[s]) :
    (/\ sess'[s].calls[h].reply = "null"
     /\ Finished(sess'[s].calls[h])
     /\ sess[s].openaiWs = "OPEN")
      => /\ Len(sess'[s].oaOut) = Len(sess[s].oaOut) + 2
         /\ sess'[s].oaOut[Len(sess[s].oaOut) + 1].type = "conversation.item.create"
         /\ sess'[s].oaOut[Len(sess[s].oaOut) + 1].call_id = sess[s].calls[h].call_id
         /\ sess[s].calls[h].name = "log_unknown_question" =>
              \E i \in 1..Len(sess'[s].logged) :
                sess'[s].logged[i] = sess[s].calls[h].payload

\* C21: for every tool that translates fields, when the translation request
\* is rejected, answers non-OK or returns no JSON object, the primary action
\* is carried out with the untranslated payload and the correlated result
\* is written to the engine.
C21_TranslationFailureTolerated ==
  [][\A s \in Live : FailedTranslationProceeds(s) /\ UntranslatedDispatchAnswers(s)]_vars

WebhookTools == KnownTools \ {"kb_search"}

\* The handler of dispatch h reaches its normal end in this step.
DispatchEnds(s, h) ==
  /\ h \in 1..Len(sess'[s].calls)
  /\ sess'[s].calls[h].stage = "done"
  /\ h \in 1..Len(sess[s].calls) => sess[s].calls[h].stage # "done"

\* The webhook of dispatch h fails in this step (its request settles with a
\* non-OK status or a network error), or the tool has no webhook configured.
WebhookFails(s, h) ==
  \/ ~WebhookConfigured(sess'[s].calls[h].name)
  \/ \E r \in {"not_ok", "error"} : WebhookDone(s, h, r) \/ LogWebhookDone(s, h, r)

\* The step writes the result frame of dispatch h, with success false.
ReportsFailure(s, h) ==
  /\ sess'[s].calls[h].outIx > Len(sess[s].oaOut)
  /\ sess'[s].oaOut[sess'[s].calls[h].outIx].call_id = sess'[s].calls[h].call_id
  /\ sess'[s].oaOut[sess'[s].calls[h].outIx].output.success = FALSE

\* C22: for every webhook tool, when the webhook request fails with a
\* network error or a non-OK status, or the webhook is not configured, the
\* dispatch ends by writing a correlated result with success false (never
\* success true), the engine socket being open.
C22_WebhookFailureReported ==
  [][\A s \in Live : \A h \in 1..MaxCalls :
       (/\ DispatchEnds(s, h)
        /\ sess'[s].calls[h].name \in WebhookTools
        /\ WebhookFails(s, h)
        /\ sess[s].openaiWs = "OPEN")
         => ReportsFailure(s, h)]_vars

-----------------------------------------------------------------------------
(* src/src/sanitize.js as a pure function.  A text is a sequence of characters, each a string *)
(* of length one; a JSON value is a record tagged by `kind`: JsNull,       *)
(* JsBool(b), JsNum(n), JsStr(text), JsArr(items) and Obj(o), o a function *)
(* from the object's own keys (texts) to values.                           *)

JsBool(b)    == [kind |-> "boolean", bool |-> b]
JsNum(n)     == [kind |-> "number", num |-> n]
JsStr(text)  == [kind |-> "string", chars |-> text]
JsArr(items) == [kind |-> "array", items |-> items]

DigitChars == {"0", "1", "2", "3", "4", "5", "6", "7", "8", "9"}

LowerChars ==
  {"a", "b", "c", "d", "e", "f", "g", "h", "i", "j", "k", "l", "m",
   "n", "o", "p", "q", "r", "s", "t", "u", "v", "w", "x", "y", "z"}

UpperChars ==
  {"A", "B", "C", "D", "E", "F", "G", "H", "I", "J", "K", "L", "M",
   "N", "O", "P", "Q", "R", "S", "T", "U", "V", "W", "X", "Y", "Z"}

\* \w and \d of a regular expression without the u flag
WordChars == DigitChars \cup LowerChars \cup UpperChars \cup {"_"}

\* [ -] in CARD_LIKE_REGEX
CardSeparators == {" ", "-"}

\* charCodeAt(i) - 48 for a digit
DigitValue(c) ==
  CASE c = "0" -> 0 [] c = "1" -> 1 [] c = "2" -> 2 [] c = "3" -> 3 [] c = "4" -> 4
    [] c = "5" -> 5 [] c = "6" -> 6 [] c = "7" -> 7 [] c = "8" -> 8 [] c = "9" -> 9

\* The decimal digits of a small array index
IndexChars(i) ==
  CASE i = 0 -> <<"0">> [] i = 1 -> <<"1">> [] i = 2 -> <<"2">> [] i = 3 -> <<"3">>

LowerChar(c) ==
  CASE c = "A" -> "a" [] c = "B" -> "b" [] c = "C" -> "c" [] c = "D" -> "d" [] c = "E" -> "e"
    [] c = "F" -> "f" [] c = "G" -> "g" [] c = "H" -> "h" [] c = "I" -> "i" [] c = "J" -> "j"
    [] c = "K" -> "k" [] c = "L" -> "l" [] c = "M" -> "m" [] c = "N" -> "n" [] c = "O" -> "o"
    [] c = "P" -> "p" [] c = "Q" -> "q" [] c = "R" -> "r" [] c = "S" -> "s" [] c = "T" -> "t"
    [] c = "U" -> "u" [] c = "V" -> "v" [] c = "W" -> "w" [] c = "X" -> "x" [] c = "Y" -> "y"
    [] c = "Z" -> "z"
    [] OTHER -> c

\* text.toLowerCase()
toLowerCase(text) == [i \in 1..Len(text) |-> LowerChar(text[i])]

\* text.includes(part)
includes(text, part) ==
  \E i \in 1..(Len(text) - Len(part) + 1) : SubSeq(text, i, i + Len(part) - 1) = part

MARKER == <<"[", "R", "E", "D", "A", "C", "T", "E", "D", "]">>

FULL_REDACT_KEYWORDS ==
  {<<"p", "a", "s", "s", "w", "o", "r", "d">>,
   <<"p", "a", "s", "s", "c", "o", "d", "e">>,
   <<"p", "a", "s", "s", " ", "p", "h", "r", "a", "s", "e">>,
   <<"p", "a", "s", "s", "p", "h", "r", "a", "s", "e">>,
   <<"p", "i", "n">>,
   <<"c", "v", "v">>,
   <<"c", "v", "c">>,
   <<"s", "e", "c", "u", "r", "i", "t", "y", " ", "c", "o", "d", "e">>,
   <<"r", "o", "u", "t", "i", "n", "g", " ", "n", "u", "m", "b", "e", "r">>,
   <<"a", "c", "c", "o", "u", "n", "t", " ", "n", "u", "m", "b", "e", "r">>,
   <<"s", "s", "n">>,
   <<"s", "o", "c", "i", "a", "l", " ", "s", "e", "c", "u", "r", "i", "t", "y">>,
   <<"i", "b", "a", "n">>,
   <<"s", "w", "i", "f", "t">>,
   <<"a", "p", "i", " ", "k", "e", "y">>,
   <<"s", "e", "c", "r", "e", "t">>,
   <<"t", "o", "k", "e", "n">>,
   <<"o", "t", "p">>,
   <<"o", "n", "e", "-", "t", "i", "m", "e">>,
   <<"2", "f", "a">>,
   <<"t", "w", "o", "-", "f", "a", "c", "t", "o", "r">>,
   <<"a", "u", "t", "h", "o", "r", "i", "z", "a", "t", "i", "o", "n", " ", "c", "o", "d", "e">>}

KEY_SENSITIVE_HINTS ==
  {<<"p", "a", "s", "s", "w", "o", "r", "d">>,
   <<"p", "a", "s", "s", "c", "o", "d", "e">>,
   <<"p", "i", "n">>,
   <<"c", "v", "v">>,
   <<"c", "v", "c">>,
   <<"s", "s", "n">>,
   <<"s", "o", "c", "i", "a", "l">>,
   <<"i", "b", "a", "n">>,
   <<"r", "o", "u", "t", "i", "n", "g">>,
   <<"a", "c", "c", "o", "u", "n", "t">>,
   <<"s", "e", "c", "r", "e", "t">>,
   <<"t", "o", "k", "e", "n">>,
   <<"a", "p", "i">>}

hasKeyword(text, keywords) ==
  IF text = <<>> THEN FALSE
  ELSE LET lower == toLowerCase(text) IN \E keyword \in keywords : includes(lower, keyword)

\* The loop of luhnCheck from index i down to 1: sum so far and the `alt`
\* flag; FALSE is returned for a character that is no digit.
RECURSIVE LuhnLoop(_, _, _, _)
LuhnLoop(digits, i, sum, alt) ==
  IF i < 1 THEN sum % 10 = 0
  ELSE IF digits[i] \notin DigitChars THEN FALSE
  ELSE LET n  == DigitValue(digits[i])
           n2 == IF alt THEN (IF n * 2 > 9 THEN n * 2 - 9 ELSE n * 2) ELSE n
       IN  LuhnLoop(digits, i - 1, sum + n2, ~alt)

\* As luhnCheck, but doubling from the last digit on instead of from the
\* last but one.
luhnCheck_DoubleFromLast(digits) == LuhnLoop(digits, Len(digits), 0, TRUE)

luhnCheck(digits) == LuhnLoop(digits, Len(digits), 0, FALSE)

\* match.replace(/\D/g, "")
DigitsOf(text) == SelectSeq(text, LAMBDA c : c \in DigitChars)

\* Where a match of CARD_LIKE_REGEX that starts at a digit ends: the
\* repetition is greedy (up to 19 groups), the separators inside a group
\* lazy, so the match runs over digits and the separators between them up
\* to the last digit it can reach; `count` digits are matched up to `last`.
RECURSIVE CardMatch(_, _, _, _)
CardMatch(text, j, count, last) ==
  IF count = 19 \/ j > Len(text) THEN [end |-> last, count |-> count]
  ELSE IF text[j] \in DigitChars THEN CardMatch(text, j + 1, count + 1, j)
  ELSE IF text[j] \in CardSeparators THEN CardMatch(text, j + 1, count, last)
  ELSE [end |-> last, count |-> count]

\* text.replace(CARD_LIKE_REGEX, callback) from position i on
RECURSIVE ReplaceCards(_, _)
ReplaceCards(text, i) ==
  IF i > Len(text) THEN [text |-> <<>>, redacted |-> FALSE]
  ELSE LET m == IF text[i] \in DigitChars
                  THEN CardMatch(text, i, 0, i) ELSE [end |-> i, count |-> 0]
       IN  IF m.count >= 13
             THEN LET match  == SubSeq(text, i, m.end)
                      digits == DigitsOf(match)
                      rest   == ReplaceCards(text, m.end + 1)
                  IN  IF Len(digits) < 13 \/ Len(digits) > 19 \/ ~luhnCheck(digits)
                        THEN [text |-> match \o rest.text, redacted |-> rest.redacted]
                        ELSE [text |-> MARKER \o rest.text, redacted |-> TRUE]
             ELSE LET rest == ReplaceCards(text, i + 1)
                  IN  [text |-> <<text[i]>> \o rest.text, redacted |-> rest.redacted]

redactCardNumbers(text) == ReplaceCards(text, 1)

\* SSN_REGEX matches at position i: \b \d{3} - \d{2} - \d{4} \b
SsnAt(text, i) ==
  /\ i + 10 <= Len(text)
  /\ \A k \in {0, 1, 2, 4, 5, 7, 8, 9, 10} : text[i + k] \in DigitChars
  /\ text[i + 3] = "-" /\ text[i + 6] = "-"
  /\ i > 1 => text[i - 1] \notin WordChars
  /\ i + 10 < Len(text) => text[i + 11] \notin WordChars

\* value.replace(SSN_REGEX, callback) from position i on
RECURSIVE ReplaceSsn(_, _)
ReplaceSsn(text, i) ==
  IF i > Len(text) THEN [text |-> <<>>, redacted |-> FALSE]
  ELSE IF SsnAt(text, i)
    THEN [text |-> MARKER \o ReplaceSsn(text, i + 11).text, redacted |-> TRUE]
    ELSE LET rest == ReplaceSsn(text, i + 1)
         IN  [text |-> <<text[i]>> \o rest.text, redacted |-> rest.redacted]

redactSensitiveText(value, keyHint) ==
  IF hasKeyword(keyHint, KEY_SENSITIVE_HINTS) THEN [text |-> MARKER, redacted |-> TRUE]
  ELSE IF hasKeyword(value, FULL_REDACT_KEYWORDS) THEN [text |-> MARKER, redacted |-> TRUE]
  ELSE LET ssn        == ReplaceSsn(value, 1)
           cardResult == redactCardNumbers(ssn.text)
       IN  [text |-> cardResult.text, redacted |-> ssn.redacted \/ cardResult.redacted]

\* path.split(".").pop(): what follows the last "." of the path
RECURSIVE LastSegment(_)
LastSegment(path) ==
  IF \A i \in 1..Len(path) : path[i] # "." THEN path
  ELSE LastSegment(Tail(path))

\* `${path}[${index}]` and path ? `${path}.${key}` : key
IndexPath(path, index) == path \o <<"[">> \o IndexChars(index) \o <<"]">>
KeyPath(path, key)     == IF path # <<>> THEN path \o <<".">> \o key ELSE key

\* out[key] = .. on a fresh {}: every key becomes an own property but
\* "__proto__", which is the prototype accessor of Object.prototype.
PROTO == <<"_", "_", "p", "r", "o", "t", "o", "_", "_">>

OwnKeysAfterAssign(keys) == keys \ {PROTO}

\* walk(value, path) of sanitizePayload
RECURSIVE walk(_, _)
walk(value, path) ==
  CASE value.kind = "array" ->
         JsArr([i \in 1..Len(value.items) |-> walk(value.items[i], IndexPath(path, i - 1))])
    [] value.kind = "object" ->
         Obj([key \in OwnKeysAfterAssign(DOMAIN value.obj) |->
                walk(value.obj[key], KeyPath(path, key))])
    [] value.kind = "string" ->
         JsStr(redactSensitiveText(value.chars, LastSegment(path)).text)
    [] OTHER -> value

sanitizePayload(payload) == walk(payload, <<>>)

-----------------------------------------------------------------------------
(* sanitizePayload called on its own, once and then on its own result *)

MaxPieces  == 2       \* pieces a text is put together from
FreeDigits == 2       \* trailing digits of a 16-digit string that vary

CardPass16 == <<"4", "1", "1", "1", "1", "1", "1", "1", "1", "1", "1", "1", "1", "1", "1", "1">>
CardFail16 == <<"4", "1", "1", "1", "1", "1", "1", "1", "1", "1", "1", "1", "1", "1", "1", "2">>
CardPass19 == <<"4", "1", "1", "1", "1", "1", "1", "1", "1", "1", "1", "1", "1", "1", "1", "1", "1", "1", "0">>
SsnText    == <<"1", "2", "3", "-", "4", "5", "-", "6", "7", "8", "9">>

Pieces ==
  {CardPass16, CardFail16, CardPass19, SsnText,
   <<"m", "y", " ", "P", "I", "N">>, <<"h", "e", "l", "l", "o">>, <<" ">>}

\* The texts put together from at most n pieces.
RECURSIVE TextsOf(_)
TextsOf(n) ==
  IF n = 0 THEN {<<>>}
  ELSE TextsOf(n - 1) \cup {t \o p : t \in TextsOf(n - 1), p \in Pieces}

\* Every string of 16 digits that starts as CardPass16 does.
SixteenDigitTexts ==
  {SubSeq(CardPass16, 1, 16 - FreeDigits) \o tail : tail \in [1..FreeDigits -> DigitChars]}

FieldNames ==
  {<<"c", "i", "t", "y">>, <<"p", "a", "s", "s", "w", "o", "r", "d">>, <<"u", "s", "e", "r", "P", "I", "N">>,
   <<"p", "i", "n", ".", "n", "o", "t", "e">>, PROTO}

\* The payloads a text is placed in: the bare string, a field, an element
\* of a sequence next to a number, and a field of a nested map next to a
\* boolean and a null.
PayloadsWith(text) ==
  {JsStr(text)}
    \cup {Obj([k \in {key} |-> JsStr(text)]) : key \in FieldNames}
    \cup {Obj([k \in {key} |-> JsArr(<<JsNum(42), JsStr(text)>>)]) : key \in FieldNames}
    \cup {Obj([k \in {<<"c", "a", "l", "l", "e", "r">>} |->
                 Obj([j \in {key, <<"o", "k">>, <<"n">>} |->
                        IF j = key THEN JsStr(text)
                        ELSE IF j = <<"o", "k">> THEN JsBool(TRUE) ELSE JsNull])]) :
          key \in FieldNames}

\* A card number with a further group of digits behind it or in front of
\* it, a space or a dash between the two.
GroupedTexts ==
  UNION {{CardPass16 \o <<sep>> \o group, group \o <<sep>> \o CardPass16} :
           sep \in CardSeparators, group \in {<<"0">>, <<"1", "2", "3">>}}

SanitizeInputs ==
  UNION {PayloadsWith(text) : text \in TextsOf(MaxPieces)}
    \cup {Obj([k \in {<<"c", "i", "t", "y">>} |-> JsStr(text)]) :
             text \in SixteenDigitTexts \cup GroupedTexts}

NotYet == [kind |-> "notyet"]

InitSanitize ==
  /\ sess = [s \in SessionIds |-> InitSession(0, 0, 0)]
  /\ proc = [crashed |-> FALSE, unhandled |-> 0, fault |-> "none", kbIndex |-> "null"]
  /\ env = [GHL |-> FALSE, WEBHOOK_CALLBACK_REQUEST |-> FALSE,
            WEBHOOK_TRANSFER_REQUEST |-> FALSE, WEBHOOK_UNKNOWN_QUESTION |-> FALSE]
  /\ clock = 0
  /\ \E payload \in SanitizeInputs :
       fn = [name |-> "sanitizePayload", payload |-> payload,
             sanitized |-> NotYet, again |-> NotYet]

\* const sanitized = sanitizePayload(payload)
SanitizeCall ==
  /\ fn.name = "sanitizePayload"
  /\ fn.sanitized = NotYet
  /\ fn' = [fn EXCEPT !.sanitized = sanitizePayload(fn.payload)]
  /\ UNCHANGED <<sess, proc, env, clock>>

\* sanitizePayload(sanitized)
SanitizeAgain ==
  /\ fn.name = "sanitizePayload"
  /\ fn.sanitized # NotYet
  /\ fn.again = NotYet
  /\ fn' = [fn EXCEPT !.again = sanitizePayload(fn.sanitized)]
  /\ UNCHANGED <<sess, proc, env, clock>>

NextSanitize == SanitizeCall \/ SanitizeAgain

SpecSanitize == InitSanitize /\ [][NextSanitize]_vars

\* C24: sanitizePayload applied to its own result returns that result.
C24_SanitizeIdempotent ==
  (fn.name = "sanitizePayload" /\ fn.again # NotYet) => fn.again = fn.sanitized

\* The payload with the single field `key` holding the string `text`.
Field(key, text) == Obj([k \in {key} |-> JsStr(text)])

\* The Luhn checksum of a digit string: counted from the right, every
\* second digit is doubled and its decimal digits added; the string passes
\* when the total is a multiple of ten.
RECURSIVE LuhnTotal(_, _)
LuhnTotal(digits, i) ==
  IF i > Len(digits) THEN 0
  ELSE LET n == DigitValue(digits[i])
           d == IF (Len(digits) - i) % 2 = 1 THEN ((2 * n) \div 10) + ((2 * n) % 10) ELSE n
       IN  d + LuhnTotal(digits, i + 1)

PassesLuhn(digits) == LuhnTotal(digits, 1) % 10 = 0

SixteenDigitInputs == SixteenDigitTexts \cup {CardPass16, CardFail16}

RECURSIVE Redacted(_, _, _)
Redacted(in, out, name) ==
  /\ out.kind = in.kind
  /\ CASE in.kind = "array" ->
            /\ Len(out.items) = Len(in.items)
            /\ \A i \in 1..Len(in.items) : Redacted(in.items[i], out.items[i], name)
       [] in.kind = "object" ->
            /\ DOMAIN out.obj = DOMAIN in.obj
            /\ \A key \in DOMAIN in.obj : Redacted(in.obj[key], out.obj[key], key)
       [] in.kind = "string" ->
            (hasKeyword(name, KEY_SENSITIVE_HINTS) \/ hasKeyword(in.chars, FULL_REDACT_KEYWORDS))
              => out.chars = MARKER
       [] OTHER -> out = in

\* C26: in what sanitizePayload returns, every string whose field name
\* holds a sensitive hint keyword, and every string whose content holds a
\* full-redact keyword, is the marker; non-string scalars, keys, sequence
\* lengths and nesting are those of the payload.
C26_KeywordRules ==
  (fn.name = "sanitizePayload" /\ fn.sanitized # NotYet) =>
    Redacted(fn.payload, fn.sanitized, <<>>)

-----------------------------------------------------------------------------
(* Tool payloads that hold sensitive text *)

\* The characters of the strings the session model uses as keys and values.
Chars(v) ==
  CASE v = ""                       -> <<>>
    [] v = "hola"                   -> <<"h", "o", "l", "a">>
    [] v = "hello"                  -> <<"h", "e", "l", "l", "o">>
    [] v = "horario"                -> <<"h", "o", "r", "a", "r", "i", "o">>
    [] v = "hours"                  -> <<"h", "o", "u", "r", "s">>
    [] v = "Unknown"                -> <<"U", "n", "k", "n", "o", "w", "n">>
    [] v = "voice"                  -> <<"v", "o", "i", "c", "e">>
    [] v = "intro"                  -> <<"i", "n", "t", "r", "o">>
    [] v = "Callback requested"     -> <<"C", "a", "l", "l", "b", "a", "c", "k", " ", "r", "e", "q", "u", "e", "s", "t", "e", "d">>
    [] v = "my pin is 1234"         -> <<"m", "y", " ", "p", "i", "n", " ", "i", "s", " ", "1", "2", "3", "4">>
    [] v = "+15559999"              -> <<"+", "1", "5", "5", "5", "9", "9", "9", "9">>
    [] v = "+15550001"              -> <<"+", "1", "5", "5", "5", "0", "0", "0", "1">>
    [] v = "Ann"                    -> <<"A", "n", "n">>
    [] v = "Acme"                   -> <<"A", "c", "m", "e">>
    [] v = "ann@acme.test"          -> <<"a", "n", "n", "@", "a", "c", "m", "e", ".", "t", "e", "s", "t">>
    [] v = "L77"                    -> <<"L", "7", "7">>
    [] v = "MZ1"                    -> <<"M", "Z", "1">>
    [] v = "MZ2"                    -> <<"M", "Z", "2">>
    [] v = "first_name"             -> <<"f", "i", "r", "s", "t", "_", "n", "a", "m", "e">>
    [] v = "company_name"           -> <<"c", "o", "m", "p", "a", "n", "y", "_", "n", "a", "m", "e">>
    [] v = "email"                  -> <<"e", "m", "a", "i", "l">>
    [] v = "phone"                  -> <<"p", "h", "o", "n", "e">>
    [] v = "job_city"               -> <<"j", "o", "b", "_", "c", "i", "t", "y">>
    [] v = "job_state"              -> <<"j", "o", "b", "_", "s", "t", "a", "t", "e">>
    [] v = "how_can_we_help_you"    -> <<"h", "o", "w", "_", "c", "a", "n", "_", "w", "e", "_", "h", "e", "l", "p", "_", "y", "o", "u">>
    [] v = "call_notes"             -> <<"c", "a", "l", "l", "_", "n", "o", "t", "e", "s">>
    [] v = "load_number"            -> <<"l", "o", "a", "d", "_", "n", "u", "m", "b", "e", "r">>
    [] v = "caller_name"            -> <<"c", "a", "l", "l", "e", "r", "_", "n", "a", "m", "e">>
    [] v = "reason"                 -> <<"r", "e", "a", "s", "o", "n">>
    [] v = "issue_summary"          -> <<"i", "s", "s", "u", "e", "_", "s", "u", "m", "m", "a", "r", "y">>
    [] v = "preferred_language"     -> <<"p", "r", "e", "f", "e", "r", "r", "e", "d", "_", "l", "a", "n", "g", "u", "a", "g", "e">>
    [] v = "reservation_number"     -> <<"r", "e", "s", "e", "r", "v", "a", "t", "i", "o", "n", "_", "n", "u", "m", "b", "e", "r">>
    [] v = "stream_sid"             -> <<"s", "t", "r", "e", "a", "m", "_", "s", "i", "d">>
    [] v = "source"                 -> <<"s", "o", "u", "r", "c", "e">>
    [] v = "introduction"           -> <<"i", "n", "t", "r", "o", "d", "u", "c", "t", "i", "o", "n">>
    [] v = "question"               -> <<"q", "u", "e", "s", "t", "i", "o", "n">>
    [] v = "topic"                  -> <<"t", "o", "p", "i", "c">>

\* A payload of the session model as a JSON value: its keys and its string
\* values spelled out, stream_sid null before the start frame.
ToJs(payload) ==
  Obj([kc \in {Chars(k) : k \in DOMAIN payload} |->
         LET k == CHOOSE x \in DOMAIN payload : Chars(x) = kc
         IN  IF k = "stream_sid" /\ payload[k] = NoSid THEN JsNull
             ELSE JsStr(Chars(payload[k]))])

InitRedact ==
  /\ sess = [s \in SessionIds |-> InitSession(1, 0, 1)]
  /\ proc = [crashed |-> FALSE, unhandled |-> 0, fault |-> "none", kbIndex |-> "index"]
  /\ env = [GHL |-> TRUE, WEBHOOK_CALLBACK_REQUEST |-> TRUE,
            WEBHOOK_TRANSFER_REQUEST |-> TRUE, WEBHOOK_UNKNOWN_QUESTION |-> TRUE]
  /\ clock = 0
  /\ fn = NoCall

NextRedact ==
  \/ \E s \in Live, caller \in Phones : TwilioStart(s, "MZ1", caller)
  \/ \E s \in Live, o \in LookupOutcomes, p \in Profiles : LookupSettle(s, 1, o, p)
  \/ \E s \in Live : OpenaiOpen(s)
  \/ \E s \in Live, n \in WebhookTools : \E o \in SensitiveArgObjects(n) :
       OpenaiFunctionCall(s, n, CallIdOf[Len(sess[s].calls) + 1], Obj(o))
  \/ \E s \in Live, k \in ReplyKinds : TranslateDone(s, 1, k)
  \/ \E s \in Live, r \in {"ok", "not_ok", "error"} : WebhookDone(s, 1, r)
  \/ \E s \in Live, ok \in BOOLEAN : AppendDone(s, 1, ok)
  \/ \E s \in Live, r \in {"ok", "not_ok", "error"} : LogWebhookDone(s, 1, r)

SpecRedact == InitRedact /\ [][NextRedact]_vars

\* The payload is what sanitizePayload returns for it.
IsSanitized(payload) == sanitizePayload(ToJs(payload)) = ToJs(payload)

\* C23: every body posted to a webhook and every entry appended to the
\* unknown-question log is a payload as sanitizePayload returns it.
C23_ForwardedPayloadsSanitized ==
  \A s \in Live :
    /\ \A i \in 1..Len(sess[s].posted) : IsSanitized(sess[s].posted[i].body)
    /\ \A i \in 1..Len(sess[s].logged) : IsSanitized(sess[s].logged[i])

-----------------------------------------------------------------------------
(* searchKb of src/src/kb.js called on its own.  Vector components are      *)
(* counted in hundredths and scores in ten-thousandths, the precision of   *)
(* score.toFixed(4); the vectors are chosen so that every division is      *)
(* exact.                                                                  *)

MaxChunks == 3        \* chunks of an index

DEFAULT_TOP_K     == 5
DEFAULT_MIN_SCORE == 7200

Undefined == [kind |-> "undefined"]

\* Number(x) of the JSON values top_k can hold is a finite number for a
\* number, null and a boolean, NaN for undefined.
NumberIsFinite(x) == x.kind \in {"number", "null", "boolean"}

Number(x) ==
  CASE x.kind = "number"  -> x.num
    [] x.kind = "null"    -> 0
    [] x.kind = "boolean" -> IF x.bool THEN 1 ELSE 0

\* const topK = Number.isFinite(Number(args.top_k)) ? Number(args.top_k) : 5
TopKOf(top_k) == IF NumberIsFinite(top_k) THEN Number(top_k) ELSE DEFAULT_TOP_K

TopKArgs == {Undefined, JsNull, JsNum(-1), JsNum(0), JsNum(1), JsNum(2)}

\* query.trim()
Trim(query) == IF query \in {" ", "  "} THEN "" ELSE query

Queries == {"", " ", "hours"}

ApiKeys == {"", "sk-test"}

\* Embeddings stored with the chunks (normalized when the index was built)
\* and embeddings the service returns for a query.
ChunkEmbeddings == {<<100, 0>>, <<0, 100>>, <<60, 80>>, <<80, 60>>}

QueryEmbeddings == {<<100, 0>>, <<300, 400>>, <<0, 0>>}

\* index.chunks: chunk i carries its place i as url.
ChunkLists ==
  UNION {[1..n -> ChunkEmbeddings] : n \in 0..MaxChunks}

IndexOf(embeddings) ==
  [kind |-> "index",
   chunks |-> [i \in 1..Len(embeddings) |-> [url |-> i, embedding |-> embeddings[i]]]]

Indexes == {JsNull} \cup {IndexOf(e) : e \in ChunkLists}

\* Math.sqrt(sum) for the sums that occur (all perfect squares)
Sqrt(sum) == CHOOSE r \in 0..sum : r * r = sum

\* normalizeVector(vec): norm = Math.sqrt(sum of squares) || 1
normalizeVector(vec) ==
  LET sum  == vec[1] * vec[1] + vec[2] * vec[2]
      norm == IF Sqrt(sum) = 0 THEN 100 ELSE Sqrt(sum)
  IN  [i \in 1..Len(vec) |-> (vec[i] * 100) \div norm]

\* index.chunks.map((chunk) => ({ ...chunk, score }))
Scored(index, normalizedQuery) ==
  [c \in 1..Len(index.chunks) |->
     [url   |-> index.chunks[c].url,
      score |-> normalizedQuery[1] * index.chunks[c].embedding[1]
                  + normalizedQuery[2] * index.chunks[c].embedding[2]]]

\* As AtLeast, but keeping every item.
AtLeast_KeepAll(items, minScore) == items

\* .filter((item) => item.score >= minScore)
AtLeast(items, minScore) == SelectSeq(items, LAMBDA item : item.score >= minScore)

\* .sort((a, b) => b.score - a.score): stable, so an item goes behind the
\* items that score as much as it does.
RECURSIVE InsertByScore(_, _)
InsertByScore(sorted, item) ==
  IF sorted = <<>> THEN <<item>>
  ELSE IF Head(sorted).score >= item.score
    THEN <<Head(sorted)>> \o InsertByScore(Tail(sorted), item)
    ELSE <<item>> \o sorted

RECURSIVE SortByScore(_)
SortByScore(items) ==
  IF items = <<>> THEN <<>>
  ELSE InsertByScore(SortByScore(SubSeq(items, 1, Len(items) - 1)), items[Len(items)])

\* .slice(0, end): a negative end counts from the end of the array
Slice(items, end) ==
  LET k == IF end < 0 THEN (IF Len(items) + end < 0 THEN 0 ELSE Len(items) + end)
           ELSE Min(end, Len(items))
  IN  SubSeq(items, 1, k)

Failure(reason) == [ok |-> FALSE, reason |-> reason, results |-> <<>>]

\* As EarlyReturn, with the query looked at before the index.
EarlyReturn_QueryFirst(index, query, apiKey) ==
  IF query = "" \/ Trim(query) = "" THEN Failure("empty_query")
  ELSE IF index = JsNull THEN Failure("kb_not_ready")
  ELSE IF apiKey = "" THEN Failure("missing_api_key")
  ELSE Undefined

\* The three guards of searchKb; Undefined when none returns.
EarlyReturn(index, query, apiKey) ==
  IF index = JsNull THEN Failure("kb_not_ready")
  ELSE IF query = "" \/ Trim(query) = "" THEN Failure("empty_query")
  ELSE IF apiKey = "" THEN Failure("missing_api_key")
  ELSE Undefined

\* searchKb after the embedding has arrived
SearchResult(index, queryEmbedding, topK, minScore) ==
  LET normalizedQuery == normalizeVector(queryEmbedding)
      scored          == Scored(index, normalizedQuery)
      results         == Slice(SortByScore(AtLeast(scored, minScore)), topK)
  IN  [ok |-> TRUE, results |-> results]

InitSearch ==
  /\ sess = [s \in SessionIds |-> InitSession(0, 0, 0)]
  /\ proc = [crashed |-> FALSE, unhandled |-> 0, fault |-> "none", kbIndex |-> "null"]
  /\ env = [GHL |-> FALSE, WEBHOOK_CALLBACK_REQUEST |-> FALSE,
            WEBHOOK_TRANSFER_REQUEST |-> FALSE, WEBHOOK_UNKNOWN_QUESTION |-> FALSE]
  /\ clock = 0
  /\ \E index \in Indexes, query \in Queries, apiKey \in ApiKeys, top_k \in TopKArgs,
        minScore \in {DEFAULT_MIN_SCORE, 10000} :
       fn = [name |-> "searchKb", index |-> index, query |-> query, apiKey |-> apiKey,
             topK |-> TopKOf(top_k), minScore |-> minScore,
             stage |-> "called", embedCalls |-> 0, embedding |-> Undefined,
             result |-> Undefined]

\* searchKb up to `await embedTexts(..)`
SearchStart ==
  /\ fn.name = "searchKb"
  /\ fn.stage = "called"
  /\ LET early == EarlyReturn(fn.index, fn.query, fn.apiKey) IN
     fn' = IF early # Undefined
             THEN [fn EXCEPT !.stage = "returned", !.result = early]
             ELSE [fn EXCEPT !.stage = "embedding", !.embedCalls = @ + 1]
  /\ UNCHANGED <<sess, proc, env, clock>>

\* embedTexts resolves with the query's embedding; searchKb returns.
SearchEmbedded(queryEmbedding) ==
  /\ fn.name = "searchKb"
  /\ fn.stage = "embedding"
  /\ fn' = [fn EXCEPT !.stage = "returned", !.embedding = queryEmbedding,
                      !.result = SearchResult(fn.index, queryEmbedding, fn.topK, fn.minScore)]
  /\ UNCHANGED <<sess, proc, env, clock>>

\* embedTexts rejects (fetch rejects, or `throw new Error` on a non-OK
\* response); searchKb has no try around the await.
SearchEmbedFailed(cause) ==
  /\ fn.name = "searchKb"
  /\ fn.stage = "embedding"
  /\ fn' = [fn EXCEPT !.stage = "thrown", !.result = [error |-> cause]]
  /\ UNCHANGED <<sess, proc, env, clock>>

NextSearch ==
  \/ SearchStart
  \/ \E e \in QueryEmbeddings : SearchEmbedded(e)
  \/ \E cause \in {"not_ok", "network"} : SearchEmbedFailed(cause)

SpecSearch == InitSearch /\ [][NextSearch]_vars

\* The query is empty or only whitespace.
Blank(query) == query \in {"", " "}

\* The reason the claim names for the arguments of a search, "none" when
\* the index is loaded, the query has text and the key is there.
ReasonFor(index, query, apiKey) ==
  IF index = JsNull THEN "kb_not_ready"
  ELSE IF Blank(query) THEN "empty_query"
  ELSE IF apiKey = "" THEN "missing_api_key"
  ELSE "none"

\* C27: a search with no index, a blank query or no API key returns the
\* tagged failure (ok false, the reason, no results), does not throw and
\* makes no embedding call; with several of the conditions the reason is
\* kb_not_ready before empty_query before missing_api_key.
C27_TaggedFailures ==
  (fn.name = "searchKb" /\ fn.stage # "called"
     /\ ReasonFor(fn.index, fn.query, fn.apiKey) # "none") =>
    /\ fn.stage = "returned"
    /\ fn.result = [ok |-> FALSE, reason |-> ReasonFor(fn.index, fn.query, fn.apiKey),
                    results |-> <<>>]
    /\ fn.embedCalls = 0

\* C27 witness: all three conditions at once, answered kb_not_ready.
C27_Witness ==
  /\ fn.name = "searchKb"
  /\ fn.index = JsNull /\ fn.query = " " /\ fn.apiKey = ""
  /\ fn.stage = "returned"
  /\ fn.result.reason = "kb_not_ready"
  /\ fn.embedCalls = 0

\* The search went past its guards and its embedding call has resolved.
Searched == fn.name = "searchKb" /\ fn.stage = "returned" /\ fn.embedding # Undefined

\* The scores of the chunks of the searched index, in chunk order.
ScoresOf == Scored(fn.index, normalizeVector(fn.embedding))

\* The places of the chunks that score at least minScore.
Matching == {c \in 1..Len(ScoresOf) : ScoresOf[c].score >= fn.minScore}

\* C28: a search over a loaded index in which no chunk scores at least
\* minScore, the index without chunks included, returns ok true with an
\* empty result list, which none of the failures is.
C28_NoMatchIsOk ==
  (Searched /\ Matching = {}) =>
    /\ fn.result = [ok |-> TRUE, results |-> <<>>]
    /\ \A reason \in {"kb_not_ready", "empty_query", "missing_api_key"} :
         fn.result # Failure(reason)

\* C28 witness: three chunks, each scoring below minScore, and the search
\* returned ok true without results.
C28_Witness ==
  /\ Searched
  /\ Len(fn.index.chunks) = 3
  /\ \A c \in 1..3 : ScoresOf[c].score > 0 /\ ScoresOf[c].score < fn.minScore
  /\ fn.result.ok = TRUE
  /\ fn.result.results = <<>>

\* What the claim says of the result list for the topK of the search: its
\* length is the smaller of topK and the number of matching chunks (no
\* length being below zero, none for a topK below zero), its
\* items are matching chunks with their scores, in descending order of
\* score and in chunk order among equal scores, and no matching chunk left
\* out scores more than one that is returned.
TopMatches(results) ==
  /\ Len(results) = IF fn.topK < 0 THEN 0 ELSE Min(fn.topK, Cardinality(Matching))
  /\ \A i \in 1..Len(results) :
       /\ results[i].url \in Matching
       /\ results[i].score = ScoresOf[results[i].url].score
  /\ \A i, j \in 1..Len(results) :
       i < j => \/ results[i].score > results[j].score
                \/ /\ results[i].score = results[j].score
                   /\ results[i].url < results[j].url
  /\ \A c \in Matching \ {results[i].url : i \in 1..Len(results)} :
       \A i \in 1..Len(results) :
         \/ ScoresOf[c].score < results[i].score
         \/ ScoresOf[c].score = results[i].score /\ results[i].url < c

\* C29: for every index, query embedding, minScore and top_k of the
\* kb_search tool, a search that succeeds returns exactly the
\* min(topK, m) highest-scoring of the m chunks that score at least
\* minScore, in descending order of score, ties in chunk order.
C29_TopKHighest ==
  Searched => (fn.result.ok = TRUE /\ TopMatches(fn.result.results))

\* C30: a search whose embedding call fails does not throw: it returns a
\* result with ok false and a reason code.
C30_EmbedFailureIsTagged ==
  (fn.name = "searchKb" /\ fn.stage \notin {"called", "embedding"}) =>
    /\ fn.stage = "returned"
    /\ fn.embedding = Undefined =>
         (fn.result.ok = FALSE /\ "reason" \in DOMAIN fn.result)

-----------------------------------------------------------------------------
(* crawlSite of src/src/kb.js called on its own.  A URL is its host, its   *)
(* path, the number of slashes behind the path, and whether it carries a   *)
(* fragment and a utm_ query parameter.  The site is a fixed answer per    *)
(* path; the loop is split at `await fetchHtml(..)`.                       *)

MaxPagesArg == 3      \* largest maxPages a crawl is called with

DEFAULT_MIN_CHARS == 300

Host(name, www) == [name |-> name, www |-> www]

NoHost == Host("", FALSE)   \* preferredHost left out

Url(host, path) ==
  [host |-> host, path |-> path, slashes |-> 0, frag |-> FALSE, utm |-> FALSE]

\* hostname.startsWith('www.') ? hostname.slice(4) : hostname
stripWww(hostname) == [hostname EXCEPT !.www = FALSE]

\* `www.${host}` for a host without the prefix
Www(host) == [host EXCEPT !.www = TRUE]

\* normalizeUrl(rawUrl, preferredHost): the host without www (or the
\* preferred host), no fragment, no utm_ parameter, and one trailing slash
\* less unless the path is "/".
normalizeUrl(rawUrl, preferredHost) ==
  LET host == stripWww(rawUrl.host) IN
  [host    |-> IF preferredHost # NoHost
                    /\ (host = preferredHost \/ Www(host) = preferredHost)
                 THEN preferredHost ELSE host,
   path    |-> rawUrl.path,
   slashes |-> IF rawUrl.slashes > 0 /\ rawUrl.path # "/"
                 THEN rawUrl.slashes - 1 ELSE rawUrl.slashes,
   frag    |-> FALSE,
   utm     |-> FALSE]

SKIP_EXTENSIONS == {".pdf"}

\* The extension of the paths of the model, "" for a path without a dot.
ExtensionOf(path) == IF path = "/f.pdf" THEN ".pdf" ELSE ""

\* isLikelyHtmlPath(url)
isLikelyHtmlPath(url) ==
  ExtensionOf(url.path) = "" \/ ExtensionOf(url.path) \notin SKIP_EXTENSIONS

EzHost    == Host("ez.test", FALSE)
OtherHost == Host("other.test", FALSE)

RootUrl     == Url(EzHost, "/")
PageA       == Url(EzHost, "/a")
PageAOther  == [host |-> Www(EzHost), path |-> "/a", slashes |-> 2, frag |-> TRUE, utm |-> TRUE]
PageB       == Url(EzHost, "/b")
PdfUrl      == Url(EzHost, "/f.pdf")
ExternalUrl == Url(OtherHost, "/")

\* The a[href] of a page, resolved, in document order.
LinkSeqs ==
  {<<>>, <<PageA, PageB>>, <<PageAOther, RootUrl>>, <<PageA, ExternalUrl>>, <<PdfUrl, PageB>>}

TextLengths == {100, 500}

\* What the server answers for a path: a page, a redirect, a response that
\* fetchHtml turns into null (not ok, or not text/html), or no response.
Answers ==
  [kind : {"html"}, links : LinkSeqs, chars : TextLengths]
    \cup [kind : {"redirect"}, to : {PageB, ExternalUrl}]
    \cup [kind : {"null", "throw"}]

SitePaths == {"/", "/a", "/b"}

Sites == [SitePaths -> Answers]

\* The page of the other host: it links back to the crawled site.
ExternalPage == [kind |-> "html", links |-> <<PageB>>, chars |-> 500]

Respond(site, url) ==
  IF url.host.name = OtherHost.name THEN ExternalPage
  ELSE IF url.path \in SitePaths THEN site[url.path]
  ELSE [kind |-> "null"]

SeqRange(q) == {q[i] : i \in 1..Len(q)}

\* fetch(url, { redirect: 'follow' }): every hop is a request; a redirect
\* that comes back to a URL of the chain ends in fetch's redirect error.
RECURSIVE Follow(_, _, _)
Follow(site, url, hops) ==
  LET r == Respond(site, url) IN
  IF r.kind = "redirect"
    THEN IF r.to \in SeqRange(hops) \cup {url}
           THEN [kind |-> "throw", hops |-> Append(hops, url)]
           ELSE Follow(site, r.to, Append(hops, url))
    ELSE IF r.kind = "html"
      THEN [kind |-> "html", hops |-> Append(hops, url), links |-> r.links,
            chars |-> r.chars, finalUrl |-> url]
      ELSE [kind |-> r.kind, hops |-> Append(hops, url)]

fetchHtml(site, url) == Follow(site, url, <<>>)

\* The links extractPage keeps: likely HTML, on an allowed host, each once.
RECURSIVE KeepLinks(_, _, _)
KeepLinks(hrefs, allowedHosts, kept) ==
  IF hrefs = <<>> THEN kept
  ELSE LET resolved == Head(hrefs) IN
       KeepLinks(Tail(hrefs), allowedHosts,
                 IF isLikelyHtmlPath(resolved)
                      /\ stripWww(resolved.host) \in allowedHosts
                      /\ resolved \notin SeqRange(kept)
                   THEN Append(kept, resolved) ELSE kept)

extractPage(html, baseUrl, allowedHosts) ==
  [chars |-> html.chars, links |-> KeepLinks(html.links, allowedHosts, <<>>)]

\* for (const link of links): push the normalized link unless visited
RECURSIVE PushLinks(_, _, _, _)
PushLinks(queue, links, visited, baseHost) ==
  IF links = <<>> THEN queue
  ELSE LET normalizedLink == normalizeUrl(Head(links), baseHost) IN
       PushLinks(IF normalizedLink \notin visited
                   THEN Append(queue, normalizedLink) ELSE queue,
                 Tail(links), visited, baseHost)

BaseUrls == {RootUrl, [RootUrl EXCEPT !.host = Www(EzHost)]}

InitCrawl ==
  /\ sess = [s \in SessionIds |-> InitSession(0, 0, 0)]
  /\ proc = [crashed |-> FALSE, unhandled |-> 0, fault |-> "none", kbIndex |-> "null"]
  /\ env = [GHL |-> FALSE, WEBHOOK_CALLBACK_REQUEST |-> FALSE,
            WEBHOOK_TRANSFER_REQUEST |-> FALSE, WEBHOOK_UNKNOWN_QUESTION |-> FALSE]
  /\ clock = 0
  /\ \E site \in Sites, baseUrl \in BaseUrls, maxPages \in 0..MaxPagesArg,
        minChars \in {0, DEFAULT_MIN_CHARS} :
       LET normalizedBase == normalizeUrl(baseUrl, NoHost)
           baseHost       == stripWww(normalizedBase.host)
       IN  fn = [name |-> "crawlSite", site |-> site, maxPages |-> maxPages,
                 minChars |-> minChars, baseHost |-> baseHost,
                 allowedHosts |-> {baseHost, Www(baseHost)},
                 queue |-> <<normalizedBase>>, visited |-> {}, pages |-> <<>>,
                 stage |-> "loop", current |-> normalizedBase,
                 fetchCalls |-> 0, requests |-> <<>>]

\* One turn of the while loop up to `await fetchHtml(..)`, or the return.
CrawlTurn ==
  /\ fn.name = "crawlSite"
  /\ fn.stage = "loop"
  /\ IF fn.queue # <<>> /\ Len(fn.pages) < fn.maxPages
       THEN LET normalized == normalizeUrl(Head(fn.queue), fn.baseHost) IN
            IF normalized \in fn.visited
              THEN fn' = [fn EXCEPT !.queue = Tail(@)]
              ELSE fn' = [fn EXCEPT !.queue = Tail(@),
                                    !.visited = @ \cup {normalized},
                                    !.current = normalized,
                                    !.fetchCalls = @ + 1,
                                    !.stage = "fetching"]
       ELSE fn' = [fn EXCEPT !.stage = "returned"]
  /\ UNCHANGED <<sess, proc, env, clock>>

\* fetchHtml settles; the rest of the turn.
CrawlFetched ==
  /\ fn.name = "crawlSite"
  /\ fn.stage = "fetching"
  /\ LET fetched == fetchHtml(fn.site, fn.current)
         after   == [fn EXCEPT !.stage = "loop", !.requests = @ \o fetched.hops]
     IN  IF fetched.kind # "html" THEN fn' = after
         ELSE LET finalNormalized == normalizeUrl(fetched.finalUrl, fn.baseHost)
                  page == extractPage(fetched, finalNormalized, fn.allowedHosts)
              IN  fn' = [after EXCEPT
                           !.pages = IF page.chars >= fn.minChars
                                       THEN Append(@, [url |-> finalNormalized,
                                                       chars |-> page.chars])
                                       ELSE @,
                           !.queue = PushLinks(@, page.links, fn.visited, fn.baseHost)]
  /\ UNCHANGED <<sess, proc, env, clock>>

NextCrawl == CrawlTurn \/ CrawlFetched

SpecCrawl == InitCrawl /\ [][NextCrawl]_vars

\* C31: the requests of a crawl, redirect hops included, go to allowed
\* hosts only, and no two of them are for the same URL after normalization.
C31_FetchedOnceOnAllowedHosts ==
  fn.name = "crawlSite" =>
    /\ \A i \in 1..Len(fn.requests) :
         stripWww(fn.requests[i].host) \in fn.allowedHosts
    /\ \A i, j \in 1..Len(fn.requests) :
         normalizeUrl(fn.requests[i], fn.baseHost)
             = normalizeUrl(fn.requests[j], fn.baseHost) => i = j

\* The loop is run to its end: a turn that can be taken is taken, and a
\* fetch settles (by an answer, an error or the redirect limit).
FairCrawl == SpecCrawl /\ WF_vars(CrawlTurn) /\ WF_vars(CrawlFetched)

\* A crawl over a finite site returns.
CrawlReturns == fn.name = "crawlSite" ~> fn.stage = "returned"

\* C32: a crawl calls fetchHtml at most maxPages times and holds at most
\* maxPages pages, for every site and both thresholds.
C32_BoundedByMaxPages ==
  fn.name = "crawlSite" =>
    /\ fn.fetchCalls <= fn.maxPages
    /\ Len(fn.pages) <= fn.maxPages

-----------------------------------------------------------------------------
(* chunkText of src/src/kb.js called on its own.  A text is a sequence of   *)
(* characters; the texts are as collapseWhitespace leaves a page's text:   *)
(* single spaces, none at either end.  Offsets count from 0 as in the      *)
(* code.                                                                   *)

MaxText      == 5     \* characters of a text
MaxChunkSize == 3     \* largest chunkSize
MaxOverlap   == 3     \* largest overlap

Max(a, b) == IF a >= b THEN a ELSE b

\* text.slice(start, end) for 0 <= start <= end <= text.length
SliceText(text, start, end) == SubSeq(text, start + 1, end)

\* text.trim()
RECURSIVE TrimText(_)
TrimText(text) ==
  IF text = <<>> THEN <<>>
  ELSE IF Head(text) = " " THEN TrimText(Tail(text))
  ELSE IF text[Len(text)] = " " THEN TrimText(SubSeq(text, 1, Len(text) - 1))
  ELSE text

\* As ChunkStep, without the overlap.
ChunkStep_NoOverlap(chunkSize, overlap) == Max(1, chunkSize)

\* const step = Math.max(1, chunkSize - overlap)
ChunkStep(chunkSize, overlap) == Max(1, chunkSize - overlap)

\* The for loop of chunkText from `start` on; `out` holds the chunks pushed
\* and the windows [start, end) sliced so far.
RECURSIVE ChunkLoop(_, _, _, _, _)
ChunkLoop(text, chunkSize, step, start, out) ==
  IF ~(start < Len(text)) THEN out
  ELSE LET end   == Min(Len(text), start + chunkSize)
           chunk == TrimText(SliceText(text, start, end))
           next  == [chunks  |-> IF Len(chunk) > 0 THEN Append(out.chunks, chunk)
                                 ELSE out.chunks,
                     windows |-> Append(out.windows, [start |-> start, end |-> end])]
       IN  IF end >= Len(text) THEN next
           ELSE ChunkLoop(text, chunkSize, step, start + step, next)

chunkText(text, chunkSize, overlap) ==
  IF text = <<>> THEN [chunks |-> <<>>, windows |-> <<>>]
  ELSE ChunkLoop(text, chunkSize, ChunkStep(chunkSize, overlap), 0,
                 [chunks |-> <<>>, windows |-> <<>>])

\* Texts without a space at either end and without two spaces in a row.
Collapsed(text) ==
  /\ text # <<>> => (Head(text) # " " /\ text[Len(text)] # " ")
  /\ \A i \in 1..(Len(text) - 1) : ~(text[i] = " " /\ text[i + 1] = " ")

PageTexts ==
  {text \in UNION {[1..n -> {"a", "b", " "}] : n \in 0..MaxText} : Collapsed(text)}

InitChunk ==
  /\ sess = [s \in SessionIds |-> InitSession(0, 0, 0)]
  /\ proc = [crashed |-> FALSE, unhandled |-> 0, fault |-> "none", kbIndex |-> "null"]
  /\ env = [GHL |-> FALSE, WEBHOOK_CALLBACK_REQUEST |-> FALSE,
            WEBHOOK_TRANSFER_REQUEST |-> FALSE, WEBHOOK_UNKNOWN_QUESTION |-> FALSE]
  /\ clock = 0
  /\ \E text \in PageTexts, chunkSize \in 1..MaxChunkSize, overlap \in 0..MaxOverlap :
       fn = [name |-> "chunkText", text |-> text, chunkSize |-> chunkSize,
             overlap |-> overlap, stage |-> "called", chunks |-> <<>>, windows |-> <<>>]

ChunkCall ==
  /\ fn.name = "chunkText"
  /\ fn.stage = "called"
  /\ LET out == chunkText(fn.text, fn.chunkSize, fn.overlap) IN
     fn' = [fn EXCEPT !.stage = "returned", !.chunks = out.chunks,
                      !.windows = out.windows]
  /\ UNCHANGED <<sess, proc, env, clock>>

NextChunk == ChunkCall

SpecChunk == InitChunk /\ [][NextChunk]_vars

ChunkReturned == fn.name = "chunkText" /\ fn.stage = "returned"

\* What the claim says of the windows: the first starts at 0, each next
\* one chunkSize - overlap further (one further when that is not
\* positive), each is chunkSize long but the last, which ends with the
\* text, and every character lies in one of them.
WindowsAsClaimed ==
  LET w == fn.windows IN
  /\ fn.text # <<>> => (w # <<>> /\ w[1].start = 0 /\ w[Len(w)].end = Len(fn.text))
  /\ \A k \in 1..(Len(w) - 1) :
       /\ w[k + 1].start - w[k].start = Max(1, fn.chunkSize - fn.overlap)
       /\ w[k].end - w[k].start = fn.chunkSize
  /\ \A k \in 1..Len(w) : w[k].end - w[k].start <= fn.chunkSize
  /\ \A c \in 0..(Len(fn.text) - 1) :
       \E k \in 1..Len(w) : w[k].start <= c /\ c < w[k].end

\* The trimmed text of window k
WindowText(k) == TrimText(SliceText(fn.text, fn.windows[k].start, fn.windows[k].end))

\* The trimmed texts of the windows from k on that are not empty.
RECURSIVE TrimmedWindows(_)
TrimmedWindows(k) ==
  IF k > Len(fn.windows) THEN <<>>
  ELSE (IF WindowText(k) = <<>> THEN <<>> ELSE <<WindowText(k)>>) \o TrimmedWindows(k + 1)

\* C33 as stated: the windows are as claimed, the chunks are at most
\* chunkSize long, and only the last chunk is shorter than chunkSize.
C33_OnlyLastChunkShorter ==
  ChunkReturned =>
    /\ WindowsAsClaimed
    /\ \A i \in 1..Len(fn.chunks) : Len(fn.chunks[i]) <= fn.chunkSize
    /\ \A i \in 1..(Len(fn.chunks) - 1) : Len(fn.chunks[i]) = fn.chunkSize

\* C33 amended: the windows are as claimed, and the chunks are the texts
\* of the windows with the white space at their ends taken off, in order,
\* a window of white space giving no chunk; so each chunk is at most
\* chunkSize long, and any chunk may be shorter.
C33_ChunksAreTrimmedWindows ==
  ChunkReturned =>
    /\ WindowsAsClaimed
    /\ fn.chunks = TrimmedWindows(1)
    /\ \A i \in 1..Len(fn.chunks) :
         Len(fn.chunks[i]) >= 1 /\ Len(fn.chunks[i]) <= fn.chunkSize

\* C33 witness: a text cut into three windows with an overlap, whose
\* first chunk lost a space and is shorter than chunkSize.
C33_Witness ==
  /\ ChunkReturned
  /\ fn.overlap = 1 /\ fn.chunkSize = 3
  /\ Len(fn.windows) >= 2
  /\ Len(fn.chunks) >= 2
  /\ Len(fn.chunks[1]) < fn.chunkSize

\* C33 witness of the other case: the overlap is not smaller than the
\* chunk size and the call returned, its windows one character apart.
ChunkOverlapNotSmaller ==
  /\ ChunkReturned
  /\ fn.overlap >= fn.chunkSize
  /\ Len(fn.windows) >= 3

-----------------------------------------------------------------------------
(* The knowledge index of one server process: initKb of src/src/index.js,  *)
(* ingestKb's write of the index file and loadKbIndex of src/src/kb.js,    *)
(* and the kb_search branch of two sessions.  A file holds the first       *)
(* `parts` pieces of the text of a document; fs.writeFile opens the path   *)
(* with truncation and writes the text piece by piece.  loadKbIndex is     *)
(* also called by a reader outside the process, at any time.               *)

FileParts == 2        \* pieces a file's text is written in
MaxReads  == 2        \* loadKbIndex calls of the outside reader

Missing == [kind |-> "missing"]

FileOf(doc, parts) == [kind |-> "file", doc |-> doc, parts |-> parts]

\* The payload of ingestion v: createdAt and the chunk list.
IndexVersion(v) ==
  [kind |-> "index", createdAt |-> v,
   chunks |-> IndexOf(IF v = 1 THEN <<(<<100, 0>>)>> ELSE <<(<<0, 100>>), (<<100, 0>>)>>).chunks]

\* JSON.stringify(payload, null, 2)
JsonStringify(payload) == [json |-> TRUE, data |-> payload]

\* Documents a file can hold when the process starts: an index, JSON
\* values without a chunk list (null, 0, {}, {"chunks": "x"}), and text
\* that is not JSON.
FileDocs ==
  {JsonStringify(IndexVersion(1)), JsonStringify(JsNull), JsonStringify(JsNum(0)),
   JsonStringify([kind |-> "object"]),
   JsonStringify([kind |-> "object", chunks |-> JsStr(<<"x">>)]),
   [json |-> FALSE, data |-> Undefined]}

\* fs.readFile(resolvedPath, 'utf-8')
ReadFile(file) ==
  IF file = Missing THEN [ok |-> FALSE, code |-> "ENOENT"]
  ELSE [ok |-> TRUE, raw |-> file]

\* JSON.parse(raw): a text cut short is no JSON text.
JsonParse(raw) ==
  IF raw.doc.json /\ raw.parts = FileParts
    THEN [ok |-> TRUE, data |-> raw.doc.data]
    ELSE [ok |-> FALSE, code |-> "SyntaxError"]

\* !data
Falsy(data) == data = JsNull \/ data = JsNum(0)

\* Array.isArray(data.chunks): of the values above only an index holds an
\* array under chunks.
ChunksIsArray(data) == data.kind = "index"

Returned(value) == [kind |-> "returned", value |-> value]
Thrown(code)    == [kind |-> "thrown", code |-> code]

\* As CatchLoad, with errors other than a missing file thrown on.
CatchLoad_OnlyMissing(code) ==
  IF code = "ENOENT" THEN Returned(JsNull) ELSE Thrown(code)

\* catch (err) { log..; return null; }
CatchLoad(code) == Returned(JsNull)

loadKbIndex(file) ==
  LET read == ReadFile(file) IN
  IF ~read.ok THEN CatchLoad(read.code)
  ELSE LET parsed == JsonParse(read.raw) IN
       IF ~parsed.ok THEN CatchLoad(parsed.code)
       ELSE IF Falsy(parsed.data) \/ ~ChunksIsArray(parsed.data)
         THEN Returned(JsNull)
         ELSE Returned(parsed.data)

NoSearch == [stage |-> "none", index |-> Undefined, result |-> Undefined]

InitIndex ==
  /\ sess = [s \in SessionIds |-> InitSession(0, 0, 0)]
  /\ proc = [crashed |-> FALSE, unhandled |-> 0, fault |-> "none", kbIndex |-> "null"]
  /\ env = [GHL |-> FALSE, WEBHOOK_CALLBACK_REQUEST |-> FALSE,
            WEBHOOK_TRANSFER_REQUEST |-> FALSE, WEBHOOK_UNKNOWN_QUESTION |-> FALSE]
  /\ clock = 0
  /\ \E file \in {Missing} \cup {FileOf(doc, FileParts) : doc \in FileDocs},
        refresh \in BOOLEAN :
       fn = [name |-> "initKb", KB_REFRESH_ON_START |-> refresh, file |-> file,
             stage |-> "boot", loaded |-> Undefined, kbIndex |-> JsNull,
             ingest |-> "none", payload |-> Undefined,
             reads |-> <<>>, search |-> [s \in SessionIds |-> NoSearch]]

\* initKb: kbIndex = await loadKbIndex(..), then ingestKb(..) is started
\* and not awaited; the server listens after initKb.
InitKb ==
  /\ fn.name = "initKb"
  /\ fn.stage = "boot"
  /\ LET loaded == loadKbIndex(fn.file) IN
     IF loaded.kind = "thrown"
       THEN fn' = [fn EXCEPT !.stage = "exited", !.loaded = loaded]
       ELSE fn' = [fn EXCEPT !.stage = "serving", !.loaded = loaded,
                             !.kbIndex = loaded.value,
                             !.ingest = IF fn.KB_REFRESH_ON_START \/ loaded.value = JsNull
                                          THEN "building" ELSE "none"]
  /\ UNCHANGED <<sess, proc, env, clock>>

\* ingestKb up to fs.writeFile: the crawl and the embedding succeeded and
\* the payload is built.
IngestBuilt ==
  /\ fn.name = "initKb"
  /\ fn.ingest = "building"
  /\ fn' = [fn EXCEPT !.ingest = "opening", !.payload = IndexVersion(2)]
  /\ UNCHANGED <<sess, proc, env, clock>>

\* ingestKb rejects (the crawl or an embedding batch throws, or a write
\* fails): .catch logs it.
IngestFailed ==
  /\ fn.name = "initKb"
  /\ fn.ingest \in {"building", "opening", "writing"}
  /\ fn' = [fn EXCEPT !.ingest = "failed"]
  /\ UNCHANGED <<sess, proc, env, clock>>

\* fs.writeFile opens the path: the file is created or truncated.
WriteOpen ==
  /\ fn.name = "initKb"
  /\ fn.ingest = "opening"
  /\ fn' = [fn EXCEPT !.ingest = "writing",
                      !.file = FileOf(JsonStringify(fn.payload), 0)]
  /\ UNCHANGED <<sess, proc, env, clock>>

\* fs.writeFile writes the next piece of the text.
WritePart ==
  /\ fn.name = "initKb"
  /\ fn.ingest = "writing"
  /\ fn.file.parts < FileParts
  /\ fn' = [fn EXCEPT !.file.parts = @ + 1]
  /\ UNCHANGED <<sess, proc, env, clock>>

\* fs.writeFile resolves, ingestKb returns the payload, and
\* .then((index) => { kbIndex = index; }) runs.
IngestDone ==
  /\ fn.name = "initKb"
  /\ fn.ingest = "writing"
  /\ fn.file.parts = FileParts
  /\ fn' = [fn EXCEPT !.ingest = "done", !.kbIndex = fn.payload]
  /\ UNCHANGED <<sess, proc, env, clock>>

\* A reader outside the process calls loadKbIndex on the same path.
ReaderLoad ==
  /\ fn.name = "initKb"
  /\ Len(fn.reads) < MaxReads
  /\ fn' = [fn EXCEPT !.reads = Append(@, [file |-> fn.file,
                                           during |-> fn.ingest,
                                           loaded |-> loadKbIndex(fn.file)])]
  /\ UNCHANGED <<sess, proc, env, clock>>

\* As SnapshotOf, with the index the process holds now.
SnapshotOf_Current(s) == fn.kbIndex

\* The `index` parameter of the searchKb call of session s
SnapshotOf(s) == fn.search[s].index

\* kb_search branch of session s up to `await embedTexts(..)`:
\* searchKb(kbIndex, args.query, ..) with the index held at the call.
KbSearchStart(s) ==
  /\ fn.name = "initKb"
  /\ fn.stage = "serving"
  /\ fn.search[s].stage = "none"
  /\ LET early == EarlyReturn(fn.kbIndex, "hours", "sk-test") IN
     fn' = IF early # Undefined
             THEN [fn EXCEPT !.search[s] = [stage |-> "returned", index |-> fn.kbIndex,
                                            result |-> early]]
             ELSE [fn EXCEPT !.search[s] = [stage |-> "embedding", index |-> fn.kbIndex,
                                            result |-> Undefined]]
  /\ UNCHANGED <<sess, proc, env, clock>>

\* embedTexts resolves: the chunks of `index` are scored.
KbSearchEmbedded(s) ==
  /\ fn.name = "initKb"
  /\ fn.search[s].stage = "embedding"
  /\ fn' = [fn EXCEPT !.search[s].stage = "returned",
                      !.search[s].result =
                         SearchResult(SnapshotOf(s), <<100, 0>>, DEFAULT_TOP_K,
                                      DEFAULT_MIN_SCORE)]
  /\ UNCHANGED <<sess, proc, env, clock>>

\* embedTexts rejects: searchKb throws into the handler's catch.
KbSearchFailed(s) ==
  /\ fn.name = "initKb"
  /\ fn.search[s].stage = "embedding"
  /\ fn' = [fn EXCEPT !.search[s].stage = "thrown"]
  /\ UNCHANGED <<sess, proc, env, clock>>

NextIndex ==
  \/ InitKb
  \/ IngestBuilt
  \/ IngestFailed
  \/ WriteOpen
  \/ WritePart
  \/ IngestDone
  \/ ReaderLoad
  \/ \E s \in SessionIds : KbSearchStart(s)
  \/ \E s \in SessionIds : KbSearchEmbedded(s)
  \/ \E s \in SessionIds : KbSearchFailed(s)

SpecIndex == InitIndex /\ [][NextIndex]_vars

\* C34: what a reader finds at the path is no file or the whole text of a
\* document, never a text that is still being written.
C34_ReaderSeesWholeFile ==
  fn.name = "initKb" =>
    \A i \in 1..Len(fn.reads) :
      fn.reads[i].file = Missing \/ fn.reads[i].file.parts = FileParts

\* The file holds no index: it is missing, its text is not JSON (cut
\* short included), or the JSON value has no chunk list.
HoldsNoIndex(file) ==
  \/ file = Missing
  \/ ~file.doc.json
  \/ file.parts < FileParts
  \/ file.doc.data \notin {IndexVersion(1), IndexVersion(2)}

\* C35: loadKbIndex returns null, and does not throw, for a file that is
\* missing, is not valid JSON or has no chunk list, in the process's own
\* start-up and for the outside reader; and a search that was given the
\* absent index has returned the kb_not_ready failure.
C35_AbsentIndexNotAnError ==
  fn.name = "initKb" =>
    /\ \A i \in 1..Len(fn.reads) :
         HoldsNoIndex(fn.reads[i].file) => fn.reads[i].loaded = Returned(JsNull)
    /\ (fn.stage # "boot" /\ fn.ingest \in {"none", "building"}
          /\ HoldsNoIndex(fn.file)) =>
         (fn.loaded = Returned(JsNull) /\ fn.stage = "serving")
    /\ \A s \in SessionIds :
         (fn.search[s].stage # "none" /\ fn.search[s].index = JsNull) =>
           /\ fn.search[s].stage = "returned"
           /\ fn.search[s].result = Failure("kb_not_ready")

\* C35 witness: the file's text is not JSON, start-up loaded null from it,
\* the outside reader too, and a search has answered kb_not_ready.
C35_Witness ==
  /\ fn.name = "initKb"
  /\ fn.file # Missing /\ ~fn.file.doc.json
  /\ fn.stage = "serving"
  /\ fn.loaded = Returned(JsNull)
  /\ Len(fn.reads) > 0 /\ fn.reads[1].loaded = Returned(JsNull)
  /\ fn.search["s1"].stage = "returned"
  /\ fn.search["s1"].result = Failure("kb_not_ready")

\* C37: the index the process holds changes only at start-up, to what
\* loadKbIndex returned, and when an ingestion has completed, to its whole
\* payload; a step of a search leaves it as it is, a search that is
\* waiting for its embedding keeps the index it was called with and its
\* result is the scoring of that index, and an ingestion that fails
\* leaves the index held.
C37_IndexReplacedNotMutated ==
  [][fn.name = "initKb" =>
       /\ fn'.kbIndex # fn.kbIndex =>
            \/ fn.stage = "boot" /\ fn'.kbIndex = fn'.loaded.value
            \/ /\ fn.ingest = "writing" /\ fn'.ingest = "done"
               /\ fn.file = FileOf(JsonStringify(fn.payload), FileParts)
               /\ fn'.kbIndex = fn.payload
               /\ fn.payload = IndexVersion(2)
       /\ fn'.search # fn.search => fn'.kbIndex = fn.kbIndex
       /\ \A s \in SessionIds :
            fn.search[s].stage = "embedding" =>
              /\ fn'.search[s].index = fn.search[s].index
              /\ fn'.search[s].stage = "returned" =>
                   fn'.search[s].result =
                     SearchResult(fn.search[s].index, <<100, 0>>, DEFAULT_TOP_K,
                                  DEFAULT_MIN_SCORE)
       /\ fn'.ingest = "failed" => fn'.kbIndex = fn.kbIndex
    ]_vars

\* C37 witness: session s1 searched the index loaded at start-up while the
\* ingestion replaced it, and got the chunk of the index it was called
\* with; session s2, called afterwards, got the chunk of the new one.
C37_Witness ==
  /\ fn.name = "initKb"
  /\ fn.kbIndex = IndexVersion(2)
  /\ fn.search["s1"].index = IndexVersion(1)
  /\ fn.search["s1"].stage = "returned"
  /\ fn.search["s1"].result.results[1].url = 1
  /\ fn.search["s2"].index = IndexVersion(2)
  /\ fn.search["s2"].stage = "returned"
  /\ fn.search["s2"].result.results[1].url = 2

-----------------------------------------------------------------------------
(* Two calls at once: each /twilio-media connection has its own closure    *)
(* state (streamSid, callerPhone, contact, openaiWs); the process is what  *)
(* the two share.                                                          *)

MaxIsolationFrames == 2   \* telephony frames of each of the two calls

InitIsolation ==
  /\ sess = [s \in SessionIds |-> InitSession(MaxIsolationFrames, 1, 0)]
  /\ proc = [crashed |-> FALSE, unhandled |-> 0, fault |-> "none", kbIndex |-> "index"]
  /\ env \in [GHL : BOOLEAN, WEBHOOK_CALLBACK_REQUEST : {TRUE},
            WEBHOOK_TRANSFER_REQUEST : {TRUE}, WEBHOOK_UNKNOWN_QUESTION : {TRUE}]
  /\ clock = 0
  /\ fn = NoCall

NextIsolation ==
  \/ \E s \in SessionIds, caller \in Phones \cup {""} :
       TwilioStart(s, IF s = "s1" THEN "MZ1" ELSE "MZ2", caller)
  \/ \E s \in SessionIds : TwilioStartMalformed(s)
  \/ \E s \in SessionIds : TwilioMedia(s, "a1")
  \/ \E s \in SessionIds : TwilioMediaMalformed(s)
  \/ \E s \in SessionIds : TwilioStop(s)
  \/ \E s \in SessionIds, o \in {"found", "reject"}, p \in Profiles :
       LookupSettle(s, 1, o, p)
  \/ \E s \in SessionIds : Sockets(s)
  \/ \E s \in SessionIds : OpenaiAudioDelta(s, "a2")

SpecIsolation == InitIsolation /\ [][NextIsolation]_vars

\* The step is an event of session s: a frame or event it received, a
\* socket of its own opening or closing, or its lookup settling.
EventOf(s) ==
  \/ sess'[s].twBudget # sess[s].twBudget
  \/ sess'[s].oaBudget # sess[s].oaBudget
  \/ sess'[s].twilio # sess[s].twilio
  \/ sess'[s].openaiWs # sess[s].openaiWs
  \/ Len(sess'[s].lookups) # Len(sess[s].lookups)

\* The step leaves session t as it was: its stream identifier, caller and
\* contact, the frames written to its sockets, and the sockets themselves.
Untouched(t) ==
  /\ sess'[t].streamSid = sess[t].streamSid
  /\ sess'[t].callerPhone = sess[t].callerPhone
  /\ sess'[t].contact = sess[t].contact
  /\ sess'[t].twOut = sess[t].twOut
  /\ sess'[t].oaOut = sess[t].oaOut
  /\ sess'[t].twilio = sess[t].twilio
  /\ sess'[t].openaiWs = sess[t].openaiWs

\* C36: an event of one session leaves the other session untouched and
\* the process running.
C36_SessionsIsolated ==
  [][\A s \in SessionIds :
       EventOf(s) => /\ \A t \in SessionIds \ {s} : Untouched(t)
                     /\ proc'.crashed = proc.crashed
    ]_vars

-----------------------------------------------------------------------------
(* The result of a dispatch and its follow-up *)

\* The dispatches of a session that wrote their result to the engine.
ResultsSent(S) == {h \in 1..Len(S.calls) : S.calls[h].outIx > 0}

\* The places in oaOut of the response.create frames that are follow-ups
\* (the greeting of sendSessionConfig is the other response.create).
FollowupsSent(S) ==
  {i \in 1..Len(S.oaOut) :
     S.oaOut[i].type = "response.create" /\ S.oaOut[i].instructions # "greeting"}

\* C38: for every dispatch that wrote a result, the frame it wrote is the
\* function_call_output of its call_id and the very next frame written to
\* the engine is its follow-up response.create; and there are as many
\* follow-ups as results, so each such dispatch has exactly one.
C38_OutputThenFollowup ==
  \A s \in Live :
    LET S == sess[s] IN
    /\ \A h \in ResultsSent(S) :
         LET c == S.calls[h] IN
         /\ S.oaOut[c.outIx].type = "conversation.item.create"
         /\ S.oaOut[c.outIx].call_id = c.call_id
         /\ c.outIx < Len(S.oaOut)
         /\ S.oaOut[c.outIx + 1] =
              [type |-> "response.create", instructions |-> FollowupText(c.name)]
    /\ Cardinality(FollowupsSent(S)) = Cardinality(ResultsSent(S))

\* C38 witness: two dispatches were in flight together and the second one
\* wrote its result and follow-up before the first.
C38_Witness ==
  LET S == sess["s1"] IN
  /\ ResultsSent(S) = {1, 2}
  /\ S.calls[2].outIx < S.calls[1].outIx
  /\ S.calls[1].name = "request_callback"
  /\ \E i \in 1..Len(S.oaOut) : S.oaOut[i].type = "session.update"

-----------------------------------------------------------------------------
(* One call, one webhook tool at a time, with every kind of reply of the   *)
(* translation service: failed, as asked, and not keeping to the request.  *)

UnfaithfulReplies == {"other_field", "new_field"}

InitTranslate == InitTools

NextTranslate ==
  \/ \E s \in Live, caller \in Phones : TwilioStart(s, "MZ1", caller)
  \/ \E s \in Live, p \in Profiles : LookupSettle(s, 1, "found", p)
  \/ \E s \in Live : OpenaiOpen(s)
  \/ \E s \in Live, n \in WebhookTools :
       \E o \in ArgObjects(n) :
         OpenaiFunctionCall(s, n, CallIdOf[Len(sess[s].calls) + 1], Obj(o))
  \/ \E s \in Live, k \in ReplyKinds \cup UnfaithfulReplies : TranslateDone(s, 1, k)
  \/ \E s \in Live, r \in {"ok", "not_ok"} : WebhookDone(s, 1, r)
  \/ \E s \in Live : AppendDone(s, 1, TRUE)
  \/ \E s \in Live : LogWebhookDone(s, 1, "ok")

SpecTranslate == InitTranslate /\ [][NextTranslate]_vars

\* The translation of dispatch h of session s returns in this step.
TranslationReturns(s, h) ==
  /\ h \in 1..Len(sess[s].calls)
  /\ sess[s].calls[h].stage = "translate"
  /\ sess'[s].calls[h].stage # "translate"

\* C39: when the translation returns, the payload that goes on has the
\* fields it had, and every field that was not listed for translation has
\* the value it had.
C39_TranslationKeepsOtherFields ==
  [][\A s \in Live, h \in 1..MaxCalls :
       TranslationReturns(s, h) =>
         LET before == sess[s].calls[h].payload
             after  == sess'[s].calls[h].payload
         IN  /\ DOMAIN after = DOMAIN before
             /\ \A k \in DOMAIN before \ TranslateFields(sess[s].calls[h].name) :
                  after[k] = before[k]
    ]_vars

-----------------------------------------------------------------------------
(* Card numbers in what sanitizePayload returns *)

\* The text is a card number as the claim describes it: digits, possibly
\* with single spaces or dashes between them, 13 to 19 digits that pass
\* the Luhn check.
IsCardRun(run) ==
  /\ run # <<>>
  /\ Head(run) \in DigitChars /\ run[Len(run)] \in DigitChars
  /\ \A i \in 1..Len(run) : run[i] \in DigitChars \cup CardSeparators
  /\ \A i \in 1..(Len(run) - 1) : ~(run[i] \in CardSeparators /\ run[i + 1] \in CardSeparators)
  /\ Len(DigitsOf(run)) >= 13 /\ Len(DigitsOf(run)) <= 19
  /\ PassesLuhn(DigitsOf(run))

\* The text holds a card number that is set off from what precedes and
\* follows it: no digit directly in front of it or behind it.
ContainsCard(text) ==
  \E i \in 1..Len(text) : \E j \in i..Len(text) :
    /\ IsCardRun(SubSeq(text, i, j))
    /\ i > 1 => text[i - 1] \notin DigitChars
    /\ j < Len(text) => text[j + 1] \notin DigitChars

CityField == <<"c", "i", "t", "y">>

\* C40: a string under the field city (a name without a sensitive hint)
\* holds no card number after sanitizePayload.
C40_NoCardSurvives ==
  (fn.name = "sanitizePayload" /\ fn.sanitized # NotYet
     /\ fn.payload.kind = "object" /\ DOMAIN fn.payload.obj = {CityField}
     /\ fn.payload.obj[CityField].kind = "string") =>
    ~ContainsCard(fn.sanitized.obj[CityField].chars)

====
